---- MODULE Spec2Model ----
(***************************************************************************)
(* Fill-in-the-blank exercise generator and grader (core.py, network.py).  *)
(* A Python str is a sequence of one-character strings; a dict with int    *)
(* keys is a function whose DOMAIN is the key set.                         *)
(***************************************************************************)
EXTENDS Integers, Sequences, FiniteSets, TLC

VARIABLES
    pc,                 \* "start" | "generated" | "submitted" | "graded" | "called" | "returned"
    original_full_text, \* argument of generate_exercise_data: [isStr, chars]
    min_blanks,         \* argument of generate_exercise_data: [isInt, val]
    max_blanks,         \* argument of generate_exercise_data: [isInt, val]
    display_parts,      \* the display sequence held by the caller
    blanks_data,        \* the blank map held by the caller
    word_bank,          \* the word bank held by the caller
    num_blanks,         \* _select_blanks: the count of _determine_num_blanks
    nonadj,             \* _select_blanks: result of the non-adjacent pass
    selected,           \* _select_blanks: its return value
    user_answers,       \* argument of _evaluate_answers
    results,            \* _evaluate_answers: per-position verdicts
    score,              \* _evaluate_answers: number of correct answers
    total_blanks,       \* _evaluate_answers: number of graded placeholders
    call_population_size,    \* argument of _determine_num_blanks
    call_words,              \* argument of _get_blank_selection_population, _create_display_parts
    call_population,         \* result of _get_blank_selection_population
    call_slider_value,       \* argument of _compute_min_max_blanks: [isNum, halves]
    call_text_length,        \* argument of _compute_min_max_blanks: [isInt, val]
    call_min_percentage,     \* argument of _compute_min_max_blanks: [isInt, val]
    call_max_percentage,     \* argument of _compute_min_max_blanks: [isInt, val]
    request,            \* the JSON request handled last
    status,             \* the HTTP status answered last
    include_decoys,     \* argument of the word bank builder
    exercise_title      \* title of the exercise the session holds

vars == <<pc, original_full_text, min_blanks, max_blanks, display_parts,
          blanks_data, word_bank, num_blanks, nonadj, selected,
          user_answers, results, score, total_blanks,
          call_population_size, call_words, call_population, call_slider_value, call_text_length,
          call_min_percentage, call_max_percentage, request, status, include_decoys, exercise_title>>

\* The variables of the calls on the helper functions and of the web layer.
helper_vars == <<call_population_size, call_words, call_population, call_slider_value, call_text_length,
                 call_min_percentage, call_max_percentage, request, status, include_decoys, exercise_title>>

\* The variables of exercise generation.
generation_vars == <<original_full_text, min_blanks, max_blanks, display_parts,
                     blanks_data, word_bank, num_blanks, nonadj, selected>>

\* The variables of grading.
grading_vars == <<user_answers, results, score, total_blanks>>

----------------------------------------------------------------------------
\* Bounds of the model.

\* Longest text (in tokens) over the full token vocabulary.
MaxWords == 3

\* Longest text (in tokens) over the two-token vocabulary.
MaxLongWords == 6

\* Largest min_blanks / max_blanks argument.
MaxBlankArg == 3

\* Longest display sequence handed to the grader.
MaxDisplay == 3

----------------------------------------------------------------------------
\* Python str primitives.

PUNCTUATION ==
    {".", "!", ",", "?", ";", ":", "'", "\"", "(", ")", "[", "]", "{", "}", "<", ">"}

Whitespace == {" ", "\t"}

UpperLetters ==
    <<"A","B","C","D","E","F","G","H","I","J","K","L","M",
      "N","O","P","Q","R","S","T","U","V","W","X","Y","Z">>

LowerLetters ==
    <<"a","b","c","d","e","f","g","h","i","j","k","l","m",
      "n","o","p","q","r","s","t","u","v","w","x","y","z">>

Digits == <<"0","1","2","3","4","5","6","7","8","9">>

Range(f) == {f[i] : i \in DOMAIN f}

EmptyMap == <<>>

Max2(a, b) == IF a >= b THEN a ELSE b

Min2(a, b) == IF a <= b THEN a ELSE b

\* str.isalpha(): non-empty and every character a letter.
isalpha(s) ==
    /\ Len(s) > 0
    /\ \A i \in 1..Len(s) : s[i] \in Range(UpperLetters) \cup Range(LowerLetters)

\* str.lower(): every upper-case letter mapped to its lower-case form.
lower(s) ==
    [i \in 1..Len(s) |->
        IF s[i] \in Range(UpperLetters)
        THEN LowerLetters[CHOOSE k \in 1..26 : UpperLetters[k] = s[i]]
        ELSE s[i]]

\* str.rstrip(chars): drop the characters of chars from the right end only.
rstrip(s, chars) ==
    LET keep == {i \in 1..Len(s) : s[i] \notin chars}
    IN  IF keep = {} THEN <<>>
        ELSE SubSeq(s, 1, CHOOSE i \in keep : \A j \in keep : j <= i)

\* str.strip(chars): drop the characters of chars from both ends.
strip(s, chars) ==
    LET keep == {i \in 1..Len(s) : s[i] \notin chars}
    IN  IF keep = {} THEN <<>>
        ELSE SubSeq(s, CHOOSE i \in keep : \A j \in keep : i <= j,
                       CHOOSE i \in keep : \A j \in keep : j <= i)

\* str.replace(c, ""): delete every occurrence of the character c.
remove_char(s, c) == SelectSeq(s, LAMBDA x : x # c)

\* str.startswith(prefix)
startswith(s, prefix) ==
    /\ Len(s) >= Len(prefix)
    /\ SubSeq(s, 1, Len(prefix)) = prefix

\* str.split(): the maximal runs of non-whitespace characters, in order.
RECURSIVE split_from(_, _, _, _)
split_from(s, i, cur, acc) ==
    IF i > Len(s)
    THEN IF cur = <<>> THEN acc ELSE Append(acc, cur)
    ELSE IF s[i] \in Whitespace
         THEN split_from(s, i + 1, <<>>, IF cur = <<>> THEN acc ELSE Append(acc, cur))
         ELSE split_from(s, i + 1, Append(cur, s[i]), acc)

split(s) == split_from(s, 1, <<>>, <<>>)

\* str.split(sep): the fields between occurrences of the character sep.
RECURSIVE split_on_from(_, _, _, _, _)
split_on_from(s, sep, i, cur, acc) ==
    IF i > Len(s)
    THEN Append(acc, cur)
    ELSE IF s[i] = sep
         THEN split_on_from(s, sep, i + 1, <<>>, Append(acc, cur))
         ELSE split_on_from(s, sep, i + 1, Append(cur, s[i]), acc)

split_on(s, sep) == split_on_from(s, sep, 1, <<>>, <<>>)

\* str(i) for an int i >= 0: its decimal digits.
RECURSIVE int_to_str(_)
int_to_str(i) ==
    IF i < 10 THEN <<Digits[i + 1]>>
    ELSE Append(int_to_str(i \div 10), Digits[(i % 10) + 1])

\* Whether int(s) succeeds: optional surrounding whitespace, optional sign,
\* then one or more decimal digits.
int_parses(s) ==
    LET t == strip(s, Whitespace)
        d == IF Len(t) > 0 /\ t[1] \in {"+", "-"} THEN Tail(t) ELSE t
    IN  /\ Len(d) > 0
        /\ \A i \in 1..Len(d) : d[i] \in Range(Digits)

RECURSIVE digits_value(_)
digits_value(d) ==
    IF d = <<>> THEN 0
    ELSE 10 * digits_value(SubSeq(d, 1, Len(d) - 1))
         + ((CHOOSE k \in 1..10 : Digits[k] = d[Len(d)]) - 1)

\* The value of int(s) when int_parses(s).
int_value(s) ==
    LET t == strip(s, Whitespace)
    IN  IF t[1] = "-" THEN 0 - digits_value(Tail(t))
        ELSE IF t[1] = "+" THEN digits_value(Tail(t))
        ELSE digits_value(t)

----------------------------------------------------------------------------
\* core.py: blank selection.

\* Mutant: the test is made on the token as it stands, punctuation included.
is_blank_candidate_unstripped(word) ==
    /\ strip(word, Whitespace) # <<>>
    /\ isalpha(remove_char(remove_char(word, "-"), "'"))

\* The eligibility test of one token (core.py:363-369).
is_blank_candidate(word) ==
    /\ strip(word, Whitespace) # <<>>
    /\ isalpha(remove_char(remove_char(strip(word, PUNCTUATION), "-"), "'"))

\* The (index, word) pairs of the eligible tokens, in token order; indices are
\* zero-based as enumerate() gives them.
_get_blank_selection_population(words) ==
    LET idxs == SelectSeq([i \in 1..Len(words) |-> i],
                          LAMBDA i : is_blank_candidate(words[i]))
    IN  [k \in 1..Len(idxs) |-> <<idxs[k] - 1, words[idxs[k]]>>]

\* Mutant: the cap on the count is the whole population, not half of it.
_determine_num_blanks_uncapped(population_size, min_b, max_b) ==
    IF ~min_b.isInt \/ ~max_b.isInt THEN {0}
    ELSE IF min_b.val < 0 \/ max_b.val < 0 THEN {0}
    ELSE IF population_size = 0 THEN {0}
    ELSE LET max_possible_blanks == Max2(1, population_size)
             effective_min == Min2(min_b.val, max_possible_blanks)
             effective_max == Min2(max_b.val, max_possible_blanks)
         IN  IF effective_min > effective_max THEN {effective_min}
             ELSE {IF k = 0 /\ max_possible_blanks > 0 THEN 1 ELSE k :
                      k \in effective_min..effective_max}

\* The set of counts _determine_num_blanks can return (one per outcome of
\* random.randint).
_determine_num_blanks(population_size, min_b, max_b) ==
    IF ~min_b.isInt \/ ~max_b.isInt THEN {0}
    ELSE IF min_b.val < 0 \/ max_b.val < 0 THEN {0}
    ELSE IF population_size = 0 THEN {0}
    ELSE LET max_possible_blanks == Max2(1, population_size \div 2)
             effective_min == Min2(min_b.val, max_possible_blanks)
             effective_max == Min2(max_b.val, max_possible_blanks)
         IN  IF effective_min > effective_max THEN {effective_min}
             ELSE {IF k = 0 /\ max_possible_blanks > 0 THEN 1 ELSE k :
                      k \in effective_min..effective_max}

\* Mutant: the two nearest positions on either side leave the pool with the
\* chosen item.
remove_chosen_and_two_neighbours(available_population, original_idx) ==
    SelectSeq(available_population,
              LAMBDA item : item[1] < original_idx - 2
                            \/ item[1] > original_idx + 2)

\* Mutant: only the left neighbour leaves the pool with the chosen item.
remove_chosen_and_left(available_population, original_idx) ==
    SelectSeq(available_population,
              LAMBDA item : /\ item[1] # original_idx
                            /\ item[1] # original_idx - 1)

\* The pool after a pick: the chosen item and both neighbours removed.
remove_chosen_and_neighbours(available_population, original_idx) ==
    SelectSeq(available_population,
              LAMBDA item : /\ item[1] # original_idx
                            /\ item[1] # original_idx - 1
                            /\ item[1] # original_idx + 1)

\* Mutant: the recorded answer keeps its leading punctuation.
blank_answer_trailing_only(word) == rstrip(word, PUNCTUATION)

\* The answer recorded for a chosen token.
blank_answer(word) == strip(word, PUNCTUATION)

\* The loop of _select_non_adjacent_blanks: every blank map it can end with
\* after `attempts` more iterations, one per sequence of random.choice results.
RECURSIVE non_adjacent_loop(_, _, _)
non_adjacent_loop(available_population, attempts, blanks) ==
    IF attempts = 0 \/ available_population = <<>>
    THEN {blanks}
    ELSE UNION {
            non_adjacent_loop(
                remove_chosen_and_neighbours(available_population,
                                             available_population[c][1]),
                attempts - 1,
                (available_population[c][1]
                    :> blank_answer(available_population[c][2])) @@ blanks)
            : c \in 1..Len(available_population)}

_select_non_adjacent_blanks(population, n) ==
    IF n < 0 THEN {EmptyMap}
    ELSE IF population = <<>> THEN {EmptyMap}
    ELSE IF n = 0 THEN {EmptyMap}
    ELSE non_adjacent_loop(population, n, EmptyMap)

\* Mutant: the sample is drawn with replacement (random.choices).
_select_random_blanks_with_replacement(population, n) ==
    IF n < 0 THEN {EmptyMap}
    ELSE IF population = <<>> THEN {EmptyMap}
    ELSE IF n = 0 THEN {EmptyMap}
    ELSE LET k == Min2(n, Len(population))
         IN  {[idx \in {population[f[j]][1] : j \in 1..k} |->
                  LET i == CHOOSE i \in 1..Len(population) : population[i][1] = idx
                  IN  blank_answer(population[i][2])]
              : f \in [1..k -> 1..Len(population)]}

\* Every blank map _select_random_blanks can return: one per sample of n
\* distinct items of the population (random.sample).
_select_random_blanks(population, n) ==
    IF n < 0 THEN {EmptyMap}
    ELSE IF population = <<>> THEN {EmptyMap}
    ELSE IF n = 0 THEN {EmptyMap}
    ELSE LET k == Min2(n, Len(population))
         IN  {[idx \in {population[i][1] : i \in sample} |->
                  LET i == CHOOSE i \in sample : population[i][1] = idx
                  IN  blank_answer(population[i][2])]
              : sample \in {S \in SUBSET (1..Len(population)) : Cardinality(S) = k}}

\* Mutant: a short non-adjacent result is returned as it is, without the
\* random fallback.
choose_selection_no_fallback(population, n, partial) == {partial}

\* core.py:315-321: the non-adjacent result when it has n entries, else a
\* fresh random sample of the whole population.
choose_selection(population, n, partial) ==
    IF Cardinality(DOMAIN partial) < n
    THEN _select_random_blanks(population, n)
    ELSE {partial}

\* A run of _select_blanks that returns {} before any selection.
NoSelection == [num_blanks |-> 0, nonadj |-> EmptyMap, blanks |-> EmptyMap]

\* The runs of _select_blanks: its return value (blanks) with the count and
\* the non-adjacent result it went through, one per random outcome.
_select_blanks(words, min_b, max_b) ==
    IF words = <<>> THEN {NoSelection}
    ELSE IF ~min_b.isInt \/ ~max_b.isInt THEN {NoSelection}
    ELSE IF min_b.val < 0 \/ max_b.val < 0 THEN {NoSelection}
    ELSE LET lo == IF min_b.val > max_b.val THEN max_b ELSE min_b
             hi == IF min_b.val > max_b.val THEN min_b ELSE max_b
             population_for_blanks == _get_blank_selection_population(words)
         IN  IF population_for_blanks = <<>> THEN {NoSelection}
             ELSE UNION {
                 IF n = 0
                 THEN {[num_blanks |-> 0, nonadj |-> EmptyMap, blanks |-> EmptyMap]}
                 ELSE UNION {
                     {[num_blanks |-> n, nonadj |-> partial, blanks |-> b]
                        : b \in choose_selection(population_for_blanks, n, partial)}
                     : partial \in _select_non_adjacent_blanks(population_for_blanks, n)}
                 : n \in _determine_num_blanks(Len(population_for_blanks), lo, hi)}

----------------------------------------------------------------------------
\* core.py: display assembly.

BLANK_PREFIX == <<"B", "L", "A", "N", "K", "_">>

\* Mutant: the placeholder carries the one-based position.
placeholder_one_based(i) == BLANK_PREFIX \o int_to_str(i + 1)

\* f"BLANK_{i}"
placeholder(i) == BLANK_PREFIX \o int_to_str(i)

\* Mutant: only the last character is split off when it is punctuation.
_split_word_and_last_character(word) ==
    IF word # <<>> /\ word[Len(word)] \in PUNCTUATION
    THEN <<SubSeq(word, 1, Len(word) - 1), <<word[Len(word)]>> >>
    ELSE <<word, <<>> >>

\* (word_part, punctuation_part): the maximal suffix of punctuation
\* characters is split off.
_split_word_and_punctuation(word) ==
    LET keep == {i \in 1..Len(word) : word[i] \notin PUNCTUATION}
        last == IF keep = {} THEN 0 ELSE CHOOSE i \in keep : \A j \in keep : j <= i
    IN  <<SubSeq(word, 1, last), SubSeq(word, last + 1, Len(word))>>

RECURSIVE display_from(_, _, _)
display_from(words, blanks, i) ==
    IF i > Len(words) THEN <<>>
    ELSE (IF (i - 1) \in DOMAIN blanks
          THEN LET punctuation_part == _split_word_and_punctuation(words[i])[2]
               IN  <<placeholder(i - 1)>>
                   \o (IF punctuation_part # <<>> THEN <<punctuation_part>> ELSE <<>>)
          ELSE <<words[i]>>)
         \o display_from(words, blanks, i + 1)

_create_display_parts(words, blanks) ==
    IF words = <<>> THEN <<>> ELSE display_from(words, blanks, 1)

----------------------------------------------------------------------------
\* core.py: exercise generation.

\* Every order random.shuffle can leave the list in.
shuffle(list) ==
    {[i \in 1..Len(list) |-> list[f[i]]] :
        f \in {g \in [1..Len(list) -> 1..Len(list)] : Range(g) = 1..Len(list)}}

RECURSIVE seq_of_set(_)
seq_of_set(S) ==
    IF S = {} THEN <<>>
    ELSE LET x == CHOOSE x \in S : TRUE
         IN  <<x>> \o seq_of_set(S \ {x})

\* Mutant: the word bank is built from the set of answers, one entry per
\* distinct word.
distinct_values_of(d) == seq_of_set(Range(d))

\* The values of a dict, in ascending key order.
RECURSIVE values_of(_)
values_of(d) ==
    IF DOMAIN d = {} THEN <<>>
    ELSE LET k == CHOOSE k \in DOMAIN d : \A j \in DOMAIN d : k <= j
         IN  <<d[k]>> \o values_of([j \in DOMAIN d \ {k} |-> d[j]])

_get_fallback_exercise_data ==
    [display_parts |-> << <<"T","h","i","s">>, <<"i","s">>, <<"a">>,
                          <<"f","a","l","l","b","a","c","k">>,
                          <<"t","e","x","t",".">>,
                          <<"B","L","A","N","K","_","4">> >>,
     blanks_data   |-> (4 :> <<"f","a","l","l","b","a","c","k">>),
     word_bank     |-> << <<"f","a","l","l","b","a","c","k">> >>]

\* A run of generate_exercise_data: what it returns and what _select_blanks
\* went through.
with_selection(exercise, run) ==
    [display_parts |-> exercise.display_parts,
     blanks_data   |-> exercise.blanks_data,
     word_bank     |-> exercise.word_bank,
     num_blanks    |-> run.num_blanks,
     nonadj        |-> run.nonadj,
     selected      |-> run.blanks]

\* Mutant: an empty selection is assembled like any other.
assemble_exercise_unchecked(words, run) ==
    {with_selection([display_parts |-> _create_display_parts(words, run.blanks),
                     blanks_data   |-> run.blanks,
                     word_bank     |-> wb], run)
        : wb \in shuffle(values_of(run.blanks))}

\* core.py:745-771: the exercise built from one selection, or the fallback.
assemble_exercise(words, run) ==
    IF run.blanks = EmptyMap
    THEN {with_selection(_get_fallback_exercise_data, run)}
    ELSE LET parts == _create_display_parts(words, run.blanks)
         IN  IF parts = <<>>
             THEN {with_selection(_get_fallback_exercise_data, run)}
             ELSE {with_selection([display_parts |-> parts,
                                   blanks_data   |-> run.blanks,
                                   word_bank     |-> wb], run)
                      : wb \in shuffle(values_of(run.blanks))}

generate_exercise_data(text, min_b, max_b) ==
    IF ~text.isStr
    THEN {with_selection(_get_fallback_exercise_data, NoSelection)}
    ELSE IF strip(text.chars, Whitespace) = <<>>
    THEN {with_selection(_get_fallback_exercise_data, NoSelection)}
    ELSE IF ~min_b.isInt \/ ~max_b.isInt
    THEN {with_selection(_get_fallback_exercise_data, NoSelection)}
    ELSE IF min_b.val < 0 \/ max_b.val < 0
    THEN {with_selection(_get_fallback_exercise_data, NoSelection)}
    ELSE LET words == split(text.chars)
         IN  IF words = <<>>
             THEN {with_selection(_get_fallback_exercise_data, NoSelection)}
             ELSE UNION {assemble_exercise(words, run)
                            : run \in _select_blanks(words, min_b, max_b)}

----------------------------------------------------------------------------
\* Inputs of generate_exercise_data.

\* Tokens: eligible with trailing punctuation, eligible inside brackets,
\* eligible with an inner hyphen, with a digit, shaped like a placeholder,
\* and a lone hyphen.
Vocabulary ==
    { <<"C","a","t",",">>,
      <<"(","s","o",")">>,
      <<"a","-","b",".">>,
      <<"x","1">>,
      <<"B","L","A","N","K","_","0">>,
      <<"-">> }

\* An eligible token and an ineligible one, for long texts.
SmallVocabulary == { <<"o","n">>, <<"7">> }

RECURSIVE join(_)
join(tokens) ==
    IF tokens = <<>> THEN <<>>
    ELSE IF Len(tokens) = 1 THEN tokens[1]
    ELSE tokens[1] \o <<" ">> \o join(Tail(tokens))

\* Texts with no token, and texts whose tokens are set off by more than one
\* whitespace character.
WhitespaceTexts ==
    { <<>>, <<" ">>, <<" ", "\t">>,
      <<" ", "o", "n">>, <<"o", "n", " ", "\t", "C", "a", "t", ",", " ">> }

\* A text with four eligible tokens, three of them different.
MixedTexts ==
    { join(<< <<"o","n">>, <<"C","a","t",",">>, <<"o","n">>, <<"(","s","o",")">> >>) }

Texts ==
    {[isStr |-> TRUE, chars |-> c] :
        c \in {join(ts) : ts \in UNION {[1..n -> Vocabulary] : n \in 1..MaxWords}}
              \cup {join(ts) : ts \in UNION {[1..n -> SmallVocabulary] : n \in 1..MaxLongWords}}
              \cup WhitespaceTexts \cup MixedTexts}
    \cup {[isStr |-> FALSE, chars |-> <<>>]}

IntArg(v) == [isInt |-> TRUE, val |-> v]

\* A min_blanks / max_blanks argument that is not an int (a float, None).
NonIntArg == [isInt |-> FALSE, val |-> 0]

BlankArgPairs ==
    {<<IntArg(a), IntArg(b)>> : a, b \in 0..MaxBlankArg}
    \cup {<<IntArg(-1), IntArg(2)>>, <<IntArg(1), IntArg(-1)>>,
          <<NonIntArg, IntArg(2)>>, <<IntArg(1), NonIntArg>>}

----------------------------------------------------------------------------
\* Values of the variables a specification does not use.

\* slider_value of a JSON body: absent, or a value int() accepts or rejects.
NoSlider == [given |-> FALSE, isInt |-> TRUE, val |-> 0]

NoRequest ==
    [is_json |-> FALSE, has_data |-> FALSE,
     original_text |-> [isStr |-> TRUE, chars |-> <<>>],
     slider_value |-> NoSlider]

HelpersIdle ==
    /\ call_population_size = 0
    /\ call_words = <<>>
    /\ call_population = <<>>
    /\ call_slider_value = [isNum |-> TRUE, halves |-> 10]
    /\ call_text_length = [isInt |-> TRUE, val |-> 0]
    /\ call_min_percentage = [isInt |-> TRUE, val |-> 0]
    /\ call_max_percentage = [isInt |-> TRUE, val |-> 0]
    /\ request = NoRequest
    /\ status = 0
    /\ include_decoys = FALSE
    /\ exercise_title = <<>>

GenerationIdle ==
    /\ original_full_text = [isStr |-> TRUE, chars |-> <<>>]
    /\ min_blanks = [isInt |-> TRUE, val |-> 0]
    /\ max_blanks = [isInt |-> TRUE, val |-> 0]
    /\ display_parts = <<>>
    /\ blanks_data = <<>>
    /\ word_bank = <<>>
    /\ num_blanks = 0
    /\ nonadj = <<>>
    /\ selected = <<>>

GradingIdle ==
    /\ user_answers = <<>>
    /\ results = <<>>
    /\ score = 0
    /\ total_blanks = 0

----------------------------------------------------------------------------
\* Generation: the arguments are drawn, then generate_exercise_data runs once.

InitGenerate ==
    /\ pc = "start"
    /\ original_full_text \in Texts
    /\ \E p \in BlankArgPairs : min_blanks = p[1] /\ max_blanks = p[2]
    /\ display_parts = <<>>
    /\ blanks_data = EmptyMap
    /\ word_bank = <<>>
    /\ num_blanks = 0
    /\ nonadj = EmptyMap
    /\ selected = EmptyMap
    /\ user_answers = EmptyMap
    /\ results = EmptyMap
    /\ score = 0
    /\ total_blanks = 0
    /\ HelpersIdle

Generate ==
    /\ pc = "start"
    /\ \E run \in generate_exercise_data(original_full_text, min_blanks, max_blanks) :
          /\ display_parts' = run.display_parts
          /\ blanks_data' = run.blanks_data
          /\ word_bank' = run.word_bank
          /\ num_blanks' = run.num_blanks
          /\ nonadj' = run.nonadj
          /\ selected' = run.selected
    /\ pc' = "generated"
    /\ UNCHANGED <<original_full_text, min_blanks, max_blanks,
                   user_answers, results, score, total_blanks>>
    /\ UNCHANGED helper_vars

NextGenerate == Generate

SpecGenerate == InitGenerate /\ [][NextGenerate]_vars

----------------------------------------------------------------------------
\* network.py: grading.

\* The characters a str of the model is made of; a display entry that is not
\* a str (None, a number) is a sequence holding something else.
Characters ==
    Range(UpperLetters) \cup Range(LowerLetters) \cup Range(Digits)
    \cup PUNCTUATION \cup Whitespace \cup {"_", "-", "+"}

is_str(x) == \A i \in 1..Len(x) : x[i] \in Characters

\* network.py:314-325: the entries the grader decodes a position from.
is_placeholder(part) ==
    /\ is_str(part)
    /\ startswith(part, BLANK_PREFIX)
    /\ int_parses(split_on(part, "_")[2])

placeholder_index(part) == int_value(split_on(part, "_")[2])

\* network.py:301-309: the blank map with int keys and str values.
correct_answers_of(blanks) == [k \in DOMAIN blanks |-> blanks[k]]

\* Mutant: no key of the stored map is taken over.
correct_answers_of_stored_dropped(blanks) == EmptyMap

\* network.py:301-309 for a blank map read back from the session, whose keys
\* are str: int(index) for every key, a key int() rejects being skipped.
correct_answers_of_stored(blanks) ==
    LET keys == {k \in DOMAIN blanks : int_parses(k)}
    IN  [key_int \in {int_value(k) : k \in keys} |->
            blanks[CHOOSE k \in keys : int_value(k) = key_int]]

\* Mutant: the submitted answer is lowercased and trimmed, the recorded one
\* is compared as stored.
answers_match_raw_correct(user_word, correct_word) ==
    strip(lower(user_word), Whitespace) = correct_word

\* Mutant: the comparison keeps the letter case.
answers_match_case_sensitive(user_word, correct_word) ==
    strip(user_word, Whitespace) = strip(correct_word, Whitespace)

\* network.py:341-343
answers_match(user_word, correct_word) ==
    strip(lower(user_word), Whitespace) = strip(lower(correct_word), Whitespace)

\* Mutant: a placeholder is counted only once its position is found.
grade_part_count_found(acc, part, correct_answers, answers) ==
    IF ~is_placeholder(part) THEN acc
    ELSE LET original_index == placeholder_index(part)
         IN  IF original_index \notin DOMAIN correct_answers THEN acc
             ELSE LET correct_word == correct_answers[original_index]
                      user_word == IF original_index \in DOMAIN answers
                                   THEN answers[original_index] ELSE <<>>
                      is_correct == answers_match(user_word, correct_word)
                  IN  [results |-> (original_index :>
                                       [user |-> user_word,
                                        correct |-> correct_word,
                                        is_correct |-> is_correct]) @@ acc.results,
                       score   |-> acc.score + (IF is_correct THEN 1 ELSE 0),
                       total   |-> acc.total + 1]

\* Mutant: a correct answer scores only the first time its position is met.
grade_part_score_once(acc, part, correct_answers, answers) ==
    IF ~is_placeholder(part) THEN acc
    ELSE LET original_index == placeholder_index(part)
             counted == [acc EXCEPT !.total = @ + 1]
         IN  IF original_index \notin DOMAIN correct_answers THEN counted
             ELSE LET correct_word == correct_answers[original_index]
                      user_word == IF original_index \in DOMAIN answers
                                   THEN answers[original_index] ELSE <<>>
                      is_correct == answers_match(user_word, correct_word)
                      seen == original_index \in DOMAIN acc.results
                  IN  [results |-> (original_index :>
                                       [user |-> user_word,
                                        correct |-> correct_word,
                                        is_correct |-> is_correct]) @@ counted.results,
                       score   |-> counted.score
                                   + (IF is_correct /\ ~seen THEN 1 ELSE 0),
                       total   |-> counted.total]

\* Mutant: a BLANK_ entry whose position is no integer is still counted.
grade_part_count_malformed(acc, part, correct_answers, answers) ==
    IF ~is_str(part) THEN acc
    ELSE IF ~startswith(part, BLANK_PREFIX) THEN acc
    ELSE IF ~int_parses(split_on(part, "_")[2])
    THEN [acc EXCEPT !.total = @ + 1]
    ELSE LET original_index == int_value(split_on(part, "_")[2])
             counted == [acc EXCEPT !.total = @ + 1]
         IN  IF original_index \notin DOMAIN correct_answers THEN counted
             ELSE LET correct_word == correct_answers[original_index]
                      user_word == IF original_index \in DOMAIN answers
                                   THEN answers[original_index] ELSE <<>>
                      is_correct == answers_match(user_word, correct_word)
                  IN  [results |-> (original_index :>
                                       [user |-> user_word,
                                        correct |-> correct_word,
                                        is_correct |-> is_correct]) @@ counted.results,
                       score   |-> counted.score + (IF is_correct THEN 1 ELSE 0),
                       total   |-> counted.total]

\* network.py:313-356: one iteration of the loop over display_parts.
grade_part(acc, part, correct_answers, answers) ==
    IF ~is_str(part) THEN acc
    ELSE IF ~startswith(part, BLANK_PREFIX) THEN acc
    ELSE IF ~int_parses(split_on(part, "_")[2]) THEN acc
    ELSE LET original_index == int_value(split_on(part, "_")[2])
             counted == [acc EXCEPT !.total = @ + 1]
         IN  IF original_index \notin DOMAIN correct_answers THEN counted
             ELSE LET correct_word == correct_answers[original_index]
                      user_word == IF original_index \in DOMAIN answers
                                   THEN answers[original_index] ELSE <<>>
                      is_correct == answers_match(user_word, correct_word)
                  IN  [results |-> (original_index :>
                                       [user |-> user_word,
                                        correct |-> correct_word,
                                        is_correct |-> is_correct]) @@ counted.results,
                       score   |-> counted.score + (IF is_correct THEN 1 ELSE 0),
                       total   |-> counted.total]

RECURSIVE grade_from(_, _, _, _, _)
grade_from(parts, i, acc, correct_answers, answers) ==
    IF i > Len(parts) THEN acc
    ELSE grade_from(parts, i + 1,
                    grade_part(acc, parts[i], correct_answers, answers),
                    correct_answers, answers)

\* (results, score, total_blanks) of _evaluate_answers.
_evaluate_answers(answers, blanks, parts) ==
    grade_from(parts, 1, [results |-> EmptyMap, score |-> 0, total |-> 0],
               correct_answers_of(blanks), answers)

\* _evaluate_answers on a blank map with str keys.
_evaluate_answers_stored(answers, blanks, parts) ==
    grade_from(parts, 1, [results |-> EmptyMap, score |-> 0, total |-> 0],
               correct_answers_of_stored(blanks), answers)

----------------------------------------------------------------------------
\* Inputs of _evaluate_answers.

\* Placeholders of positions 0, 1, 2; a placeholder with a second underscore;
\* a BLANK_ entry whose position is no integer; an ordinary token.
DisplayEntries ==
    { <<"B","L","A","N","K","_","0">>,
      <<"B","L","A","N","K","_","1">>,
      <<"B","L","A","N","K","_","2">>,
      <<"B","L","A","N","K","_","1","_","b">>,
      <<"B","L","A","N","K","_","x">>,
      <<"t","h","e">> }

DisplaySequences == UNION {[1..n -> DisplayEntries] : n \in 0..MaxDisplay}

MapsOver(keys, vals) == UNION {[K -> vals] : K \in SUBSET keys}

RecordedAnswers == { <<"c","a","t">>, <<"D","o","g"," ">> }

SubmittedAnswers ==
    { <<"c","a","t">>, <<" ","C","a","t"," ">>, <<"D","o","g"," ">> }

BlankMaps == MapsOver({0, 1}, RecordedAnswers)

Submissions == MapsOver({0, 1}, SubmittedAnswers)

----------------------------------------------------------------------------
\* Grading: the arguments are drawn, then _evaluate_answers runs once.

InitGrade ==
    /\ pc = "submitted"
    /\ original_full_text = [isStr |-> TRUE, chars |-> <<>>]
    /\ min_blanks = IntArg(0)
    /\ max_blanks = IntArg(0)
    /\ display_parts \in DisplaySequences
    /\ blanks_data \in BlankMaps
    /\ word_bank = <<>>
    /\ num_blanks = 0
    /\ nonadj = EmptyMap
    /\ selected = EmptyMap
    /\ user_answers \in Submissions
    /\ results = EmptyMap
    /\ score = 0
    /\ total_blanks = 0
    /\ HelpersIdle

Evaluate ==
    /\ pc = "submitted"
    /\ LET graded == _evaluate_answers(user_answers, blanks_data, display_parts)
       IN  /\ results' = graded.results
           /\ score' = graded.score
           /\ total_blanks' = graded.total
    /\ pc' = "graded"
    /\ UNCHANGED <<original_full_text, min_blanks, max_blanks, display_parts,
                   blanks_data, word_bank, num_blanks, nonadj, selected,
                   user_answers>>
    /\ UNCHANGED helper_vars

NextGrade == Evaluate

SpecGrade == InitGrade /\ [][NextGrade]_vars

----------------------------------------------------------------------------
\* Properties of generation (SpecGenerate).

\* The tokens of the text handed to generate_exercise_data.
InputWords ==
    IF original_full_text.isStr THEN split(original_full_text.chars) ELSE <<>>

\* Zero-based positions of the eligible tokens of the input text.
EligiblePositions == {i - 1 : i \in {j \in 1..Len(InputWords) : is_blank_candidate(InputWords[j])}}

EligibleCount == Cardinality(EligiblePositions)

\* The positions the grader decodes from a display sequence.
DecodedPositions(parts) ==
    {placeholder_index(parts[i]) : i \in {j \in 1..Len(parts) : is_placeholder(parts[j])}}

NoPlaceholderToken == \A i \in 1..Len(InputWords) : ~is_placeholder(InputWords[i])

\* C1 (as stated): for every text of arbitrary tokens, the positions decoded
\* from the placeholder entries of the returned display sequence are exactly
\* the keys of the returned blank map.
C1_DecodedEqualsKeys ==
    pc = "generated" => DecodedPositions(display_parts) = DOMAIN blanks_data

\* C1 (amended): the same, for texts none of whose tokens is itself an entry
\* the grader treats as a placeholder.
C1_DecodedEqualsKeysNoPlaceholderToken ==
    (pc = "generated" /\ NoPlaceholderToken)
        => DecodedPositions(display_parts) = DOMAIN blanks_data

\* C1 witness: an exercise built from a text without placeholder-like tokens,
\* in which a blanked token left its punctuation behind as an extra entry.
C1_Witness ==
    /\ pc = "generated"
    /\ NoPlaceholderToken
    /\ selected # EmptyMap
    /\ blanks_data = selected
    /\ Len(display_parts) > Len(InputWords)
    /\ \E i \in 1..Len(InputWords) : (i - 1) \notin DOMAIN blanks_data

\* C2: a text with at least one eligible word and integer min/max yields a
\* blank map of size at least 1 and at most max(1, eligibleCount // 2).
C2_BlankCountBounds ==
    (pc = "generated" /\ EligibleCount >= 1 /\ min_blanks.isInt /\ max_blanks.isInt)
        => /\ Cardinality(DOMAIN blanks_data) >= 1
           /\ Cardinality(DOMAIN blanks_data) <= Max2(1, EligibleCount \div 2)

\* C2 witness: six eligible words and three blanks, the cap reached.
C2_Witness ==
    /\ pc = "generated"
    /\ EligibleCount = 6
    /\ min_blanks.isInt /\ max_blanks.isInt
    /\ Cardinality(DOMAIN blanks_data) = 3

NoAdjacentKeys(m) == \A p \in DOMAIN m : (p + 1) \notin DOMAIN m

\* C7: when the non-adjacent pass reaches the requested count, _select_blanks
\* returns its result and no two keys of it differ by exactly 1.
C7_NonAdjacentWhenSatisfied ==
    (pc = "generated" /\ num_blanks > 0 /\ Cardinality(DOMAIN nonadj) = num_blanks)
        => /\ selected = nonadj
           /\ NoAdjacentKeys(selected)

\* C7 witness: three blanks chosen by the non-adjacent pass among six
\* consecutive eligible positions.
C7_Witness ==
    /\ pc = "generated"
    /\ num_blanks = 3
    /\ Cardinality(DOMAIN nonadj) = 3
    /\ selected = nonadj
    /\ EligiblePositions = 0..5

\* C8: when the non-adjacent pass falls short, _select_blanks returns exactly
\* count distinct eligible positions of the whole population with their
\* stripped tokens; so its result always has the count of
\* _determine_num_blanks.
C8_FallbackMeetsCount ==
    pc = "generated"
        => /\ Cardinality(DOMAIN selected) = num_blanks
           /\ Cardinality(DOMAIN nonadj) < num_blanks
                => /\ DOMAIN selected \subseteq EligiblePositions
                   /\ \A p \in DOMAIN selected :
                         selected[p] = strip(InputWords[p + 1], PUNCTUATION)

\* C8 witness: the fallback ran, dropped a position the non-adjacent pass had
\* picked, and returned two adjacent positions.
C8_Witness ==
    /\ pc = "generated"
    /\ Cardinality(DOMAIN nonadj) < num_blanks
    /\ ~(DOMAIN nonadj \subseteq DOMAIN selected)
    /\ ~NoAdjacentKeys(selected)
    /\ Cardinality(DOMAIN selected) = num_blanks

\* C9: every value of the returned blank map is non-empty and neither starts
\* nor ends with a punctuation character.
C9_AnswersHaveNoOuterPunctuation ==
    pc = "generated"
        => \A p \in DOMAIN blanks_data :
              /\ blanks_data[p] # <<>>
              /\ blanks_data[p][1] \notin PUNCTUATION
              /\ blanks_data[p][Len(blanks_data[p])] \notin PUNCTUATION

\* C9 witness: a blanked token that has punctuation on both sides.
C9_Witness ==
    /\ pc = "generated"
    /\ blanks_data = selected
    /\ \E p \in DOMAIN selected :
          /\ InputWords[p + 1][1] \in PUNCTUATION
          /\ InputWords[p + 1][Len(InputWords[p + 1])] \in PUNCTUATION

\* The inputs C10 calls unusable.
UnusableInput ==
    \/ ~original_full_text.isStr
    \/ \A i \in 1..Len(original_full_text.chars) :
          original_full_text.chars[i] \in Whitespace
    \/ EligibleCount = 0
    \/ ~min_blanks.isInt \/ ~max_blanks.isInt
    \/ min_blanks.val < 0 \/ max_blanks.val < 0

\* C10: unusable input yields exactly the fixed fallback triple.
C10_UnusableInputGivesFallback ==
    (pc = "generated" /\ UnusableInput)
        => /\ display_parts = << <<"T","h","i","s">>, <<"i","s">>, <<"a">>,
                                 <<"f","a","l","l","b","a","c","k">>,
                                 <<"t","e","x","t",".">>,
                                 <<"B","L","A","N","K","_","4">> >>
           /\ DOMAIN blanks_data = {4}
           /\ blanks_data[4] = <<"f","a","l","l","b","a","c","k">>
           /\ word_bank = << <<"f","a","l","l","b","a","c","k">> >>

\* C10 witness: a text of valid arguments and several tokens, none eligible,
\* answered with the fallback.
C10_Witness ==
    /\ pc = "generated"
    /\ original_full_text.isStr
    /\ Len(InputWords) >= 2
    /\ EligibleCount = 0
    /\ min_blanks.isInt /\ max_blanks.isInt
    /\ min_blanks.val >= 0 /\ max_blanks.val >= 0
    /\ DOMAIN blanks_data = {4}

----------------------------------------------------------------------------
\* Properties of grading (SpecGrade).

\* An entry of the form BLANK_<integer>: the prefix, then a signed run of
\* digits that ends at the next underscore or at the end of the entry.
IsBlankMarker(e) ==
    /\ is_str(e)
    /\ Len(e) >= 6
    /\ SubSeq(e, 1, 6) = <<"B","L","A","N","K","_">>
    /\ LET stops == {i \in 7..Len(e) : e[i] = "_"}
           stop  == IF stops = {} THEN Len(e) + 1
                    ELSE CHOOSE i \in stops : \A j \in stops : i <= j
           first == IF stop > 7 /\ e[7] \in {"+", "-"} THEN 8 ELSE 7
       IN  /\ first < stop
           /\ \A i \in first..(stop - 1) : e[i] \in Range(Digits)

MarkerEntries(parts) == {i \in 1..Len(parts) : IsBlankMarker(parts[i])}

\* C3 (as stated): a placeholder whose position is no key of the blank map
\* gets a results entry with the "[MISSING]" answer, is_correct false, and is
\* counted in total.
C3_MissingPositionRecorded ==
    pc = "graded"
        => /\ total_blanks = Cardinality(MarkerEntries(display_parts))
           /\ \A p \in DecodedPositions(display_parts) \ DOMAIN blanks_data :
                 /\ p \in DOMAIN results
                 /\ results[p].correct = <<"[","M","I","S","S","I","N","G","]">>
                 /\ results[p].is_correct = FALSE

\* C4: total is the number of BLANK_<integer> entries of the display
\* sequence, whatever the blank map holds.
C4_TotalCountsMarkers ==
    pc = "graded" => total_blanks = Cardinality(MarkerEntries(display_parts))

\* C4 witness: more markers in the display sequence than keys in the blank
\* map, next to a BLANK_ entry that is no marker.
C4_Witness ==
    /\ pc = "graded"
    /\ total_blanks = 2
    /\ Cardinality(DOMAIN blanks_data) < 2
    /\ \E i \in 1..Len(display_parts) :
          /\ startswith(display_parts[i], BLANK_PREFIX)
          /\ ~IsBlankMarker(display_parts[i])

AllSubmittedAsRecorded ==
    \A p \in DOMAIN blanks_data :
        p \in DOMAIN user_answers /\ user_answers[p] = blanks_data[p]

\* C5 (as stated): for every blank map and display sequence, submitting the
\* recorded answers gives score = total = number of markers.
C5_AllCorrectScoresTotal ==
    (pc = "graded" /\ AllSubmittedAsRecorded)
        => /\ score = total_blanks
           /\ total_blanks = Cardinality(MarkerEntries(display_parts))

\* C5 (amended): the same, for display sequences whose decoded positions are
\* all keys of the blank map.
C5_AllCorrectScoresTotalWhenConsistent ==
    (pc = "graded" /\ AllSubmittedAsRecorded
       /\ DecodedPositions(display_parts) \subseteq DOMAIN blanks_data)
        => /\ score = total_blanks
           /\ total_blanks = Cardinality(MarkerEntries(display_parts))

\* C5 witness: both recorded answers submitted as recorded, one of them with
\* an upper-case letter, and every marker graded correct.
C5_Witness ==
    /\ pc = "graded"
    /\ AllSubmittedAsRecorded
    /\ DOMAIN blanks_data = {0, 1}
    /\ \E p \in DOMAIN blanks_data : blanks_data[p] # lower(blanks_data[p])
    /\ DecodedPositions(display_parts) = {0, 1}
    /\ score = 3
    /\ total_blanks = 3

\* The normal form of an answer: surrounding whitespace trimmed, then
\* lowercased.
Normalised(s) == lower(strip(s, Whitespace))

\* C6: the verdict of a graded position is true exactly when the submitted
\* and the recorded answer have the same normal form.
C6_VerdictIsNormalisedEquality ==
    pc = "graded"
        => \A p \in DOMAIN results :
              /\ results[p].correct = blanks_data[p]
              /\ results[p].user = (IF p \in DOMAIN user_answers
                                    THEN user_answers[p] ELSE <<>>)
              /\ results[p].is_correct
                    = (Normalised(results[p].user) = Normalised(results[p].correct))

\* C6 witness: " Cat " graded correct against "cat".
C6_Witness ==
    /\ pc = "graded"
    /\ \E p \in DOMAIN results :
          /\ results[p].user = <<" ","C","a","t"," ">>
          /\ results[p].correct = <<"c","a","t">>
          /\ results[p].is_correct

----------------------------------------------------------------------------
\* Further properties of generation (SpecGenerate).

\* C11 (as stated): after every call, every key of the returned blank map is
\* the position of an eligible token of the text of that call, and its value
\* is that token with the punctuation set stripped from both ends.
C11_KeysAreEligiblePositions ==
    pc = "generated"
        => \A p \in DOMAIN blanks_data :
              /\ p \in EligiblePositions
              /\ blanks_data[p] = strip(InputWords[p + 1], PUNCTUATION)

\* The effective range of a call over n eligible tokens.
EffectiveMin(n) == Min2(min_blanks.val, Max2(1, n \div 2))

EffectiveMax(n) == Min2(max_blanks.val, Max2(1, n \div 2))

\* A usable call over n eligible tokens whose requested range has its
\* effective minimum above its effective maximum.
RangeInverted(n) ==
    /\ min_blanks.isInt /\ max_blanks.isInt
    /\ min_blanks.val >= 0 /\ max_blanks.val >= 0
    /\ min_blanks.val > max_blanks.val
    /\ n >= 1
    /\ EffectiveMin(n) > EffectiveMax(n)

\* C12 (as stated): with the effective minimum above the effective maximum,
\* the number of blanks generated is the effective minimum.
C12_InvertedRangeGivesEffectiveMin ==
    LET n == EligibleCount
    IN  (pc = "generated" /\ RangeInverted(n))
            => Cardinality(DOMAIN blanks_data) = EffectiveMin(n)

\* C12 (amended): the range is swapped before the count is drawn, so the
\* number of blanks is at least max(1, effective maximum) and at most the
\* effective minimum.
C12_InvertedRangeIsSwapped ==
    LET n == EligibleCount
    IN  (pc = "generated" /\ RangeInverted(n))
            => /\ Cardinality(DOMAIN blanks_data) >= Max2(1, EffectiveMax(n))
               /\ Cardinality(DOMAIN blanks_data) <= EffectiveMin(n)
               /\ Cardinality(DOMAIN blanks_data) = num_blanks

\* C12 witness: an inverted range that gave fewer blanks than its effective
\* minimum.
C12_Witness ==
    /\ pc = "generated"
    /\ RangeInverted(EligibleCount)
    /\ EffectiveMin(EligibleCount) = 3
    /\ Cardinality(DOMAIN blanks_data) = 1

Occurrences(seq, v) == Cardinality({i \in DOMAIN seq : seq[i] = v})

\* C16: the word bank is a permutation of the values of the blank map: the
\* same length, and every word as often as it is a value.
C16_WordBankIsPermutation ==
    pc = "generated"
        => /\ Len(word_bank) = Cardinality(DOMAIN blanks_data)
           /\ \A v \in Range(word_bank) \cup Range(blanks_data) :
                 Occurrences(word_bank, v) = Occurrences(blanks_data, v)

\* C16 witness: three blanks of the same word, each with its entry.
C16_Witness ==
    /\ pc = "generated"
    /\ Cardinality(DOMAIN blanks_data) = 3
    /\ Cardinality(Range(blanks_data)) = 1
    /\ Len(word_bank) = 3

\* A bank of two different words listed against the order of their keys.
C16_ShuffledOrderReached ==
    /\ pc = "generated"
    /\ \E p, q \in DOMAIN blanks_data :
          /\ p < q
          /\ blanks_data[p] # blanks_data[q]
          /\ word_bank = <<blanks_data[q], blanks_data[p]>>

----------------------------------------------------------------------------
\* core.py: _determine_num_blanks called on its own.

\* Largest population size of a direct call.
MaxPopulation == 8

\* Largest min_blanks / max_blanks of a direct call.
MaxCountArg == 5

InitCount ==
    /\ pc = "called"
    /\ call_population_size \in 0..MaxPopulation
    /\ min_blanks \in {IntArg(a) : a \in -1..MaxCountArg} \cup {NonIntArg}
    /\ max_blanks \in {IntArg(b) : b \in -1..MaxCountArg} \cup {NonIntArg}
    /\ original_full_text = [isStr |-> TRUE, chars |-> <<>>]
    /\ display_parts = <<>>
    /\ blanks_data = EmptyMap
    /\ word_bank = <<>>
    /\ num_blanks = 0
    /\ nonadj = EmptyMap
    /\ selected = EmptyMap
    /\ GradingIdle
    /\ call_words = <<>>
    /\ call_population = <<>>
    /\ call_slider_value = [isNum |-> TRUE, halves |-> 10]
    /\ call_text_length = IntArg(0)
    /\ call_min_percentage = IntArg(0)
    /\ call_max_percentage = IntArg(0)
    /\ request = NoRequest
    /\ status = 0
    /\ include_decoys = FALSE
    /\ exercise_title = <<>>

\* One call of _determine_num_blanks; random.randint picks the count.
DetermineNumBlanks ==
    /\ pc = "called"
    /\ num_blanks' \in _determine_num_blanks(call_population_size,
                                             min_blanks, max_blanks)
    /\ pc' = "returned"
    /\ UNCHANGED <<original_full_text, min_blanks, max_blanks, display_parts,
                   blanks_data, word_bank, nonadj, selected>>
    /\ UNCHANGED grading_vars
    /\ UNCHANGED helper_vars

NextCount == DetermineNumBlanks

SpecCount == InitCount /\ [][NextCount]_vars

\* The counts the contract allows for a valid call.
ContractCounts ==
    LET maxPossible == Max2(1, call_population_size \div 2)
    IN  {Max2(1, k) : k \in Min2(min_blanks.val, maxPossible)
                            ..Min2(max_blanks.val, maxPossible)}

ValidCountCall ==
    /\ call_population_size >= 1
    /\ min_blanks.isInt /\ max_blanks.isInt
    /\ 0 <= min_blanks.val
    /\ min_blanks.val <= max_blanks.val

\* C13: for population_size >= 1 and 0 <= min_blanks <= max_blanks the values
\* _determine_num_blanks can return are exactly max(1, k) for k between
\* min(min_blanks, maxPossible) and min(max_blanks, maxPossible); population
\* 1 with range (3, 5) returns 1 and population 0 returns 0.
C13_CountsAreContractCounts ==
    /\ ValidCountCall
          => _determine_num_blanks(call_population_size, min_blanks,
                                   max_blanks) = ContractCounts
    /\ (pc = "returned" /\ ValidCountCall) => num_blanks \in ContractCounts
    /\ (pc = "returned" /\ call_population_size = 1
        /\ min_blanks = IntArg(3) /\ max_blanks = IntArg(5)) => num_blanks = 1
    /\ (pc = "returned" /\ call_population_size = 0) => num_blanks = 0

\* C13 witness: a draw of 0 forced to 1 next to a larger count of the same
\* call.
C13_Witness ==
    /\ pc = "returned"
    /\ call_population_size = MaxPopulation
    /\ min_blanks = IntArg(0)
    /\ max_blanks = IntArg(MaxCountArg)
    /\ num_blanks = 1
    /\ Cardinality(ContractCounts) >= 3

----------------------------------------------------------------------------
\* core.py: _get_blank_selection_population called on its own.

\* Longest token list of a direct call.
MaxClassifyWords == 3

\* Tokens of a direct call: words with outer punctuation, an inner hyphen, an
\* inner apostrophe, a leading hyphen, a digit, an underscore, an inner
\* bracket, punctuation only, hyphens only, whitespace only and the empty
\* string.
ClassifyVocabulary ==
    { <<"C","a","t",",">>,
      <<"(","s","o",")">>,
      <<"a","-","b",".">>,
      <<"d","o","n","'","t">>,
      <<"-","a">>,
      <<"x","1">>,
      <<"a","_","b">>,
      <<"a","(","b">>,
      <<"'","!">>,
      <<"-">>,
      <<" ">>,
      <<>> }

RECURSIVE SeqsUpTo(_, _)
SeqsUpTo(S, n) ==
    IF n = 0 THEN {<<>>}
    ELSE LET shorter == SeqsUpTo(S, n - 1)
         IN  shorter \cup {Append(q, x) : q \in shorter, x \in S}

InitClassify ==
    /\ pc = "called"
    /\ call_words \in SeqsUpTo(ClassifyVocabulary, MaxClassifyWords)
    /\ call_population = <<>>
    /\ GenerationIdle
    /\ GradingIdle
    /\ call_population_size = 0
    /\ call_slider_value = [isNum |-> TRUE, halves |-> 10]
    /\ call_text_length = IntArg(0)
    /\ call_min_percentage = IntArg(0)
    /\ call_max_percentage = IntArg(0)
    /\ request = NoRequest
    /\ status = 0
    /\ include_decoys = FALSE
    /\ exercise_title = <<>>

\* One call of _get_blank_selection_population.
GetBlankSelectionPopulation ==
    /\ pc = "called"
    /\ call_population' = _get_blank_selection_population(call_words)
    /\ pc' = "returned"
    /\ UNCHANGED <<call_population_size, call_words, call_slider_value,
                   call_text_length, call_min_percentage,
                   call_max_percentage, request, status, include_decoys, exercise_title>>
    /\ UNCHANGED generation_vars
    /\ UNCHANGED grading_vars

NextClassify == GetBlankSelectionPopulation

SpecClassify == InitClassify /\ [][NextClassify]_vars

Letters == Range(UpperLetters) \cup Range(LowerLetters)

\* Between its first and its last character outside the punctuation set the
\* token holds only letters, hyphens and apostrophes, and at least one letter.
HasAlphabeticCore(t) ==
    \E a, b \in 1..Len(t) :
        /\ a <= b
        /\ t[a] \notin PUNCTUATION
        /\ t[b] \notin PUNCTUATION
        /\ \A i \in 1..Len(t) : (i < a \/ i > b) => t[i] \in PUNCTUATION
        /\ \A i \in a..b : t[i] \in Letters \cup {"-", "'"}
        /\ \E i \in a..b : t[i] \in Letters

PopulationPositions == {call_population[k][1] : k \in DOMAIN call_population}

\* C14: the population is, in ascending position order, exactly the pairs
\* (i, token i) whose token stripped of outer punctuation and freed of
\* hyphens and apostrophes is non-empty and alphabetic; no token with a digit
\* or another symbol and no token of punctuation only is in it.
C14_PopulationIsAlphabeticTokens ==
    pc = "returned"
        => /\ \A k \in DOMAIN call_population :
                 /\ call_population[k][1] \in 0..(Len(call_words) - 1)
                 /\ call_population[k][2] = call_words[call_population[k][1] + 1]
           /\ \A k \in 1..(Len(call_population) - 1) :
                 call_population[k][1] < call_population[k + 1][1]
           /\ PopulationPositions
                 = {i \in 0..(Len(call_words) - 1) :
                        HasAlphabeticCore(call_words[i + 1])}
           /\ \A k \in DOMAIN call_population :
                 /\ \A c \in Range(call_population[k][2]) :
                       c \in Letters \cup PUNCTUATION \cup {"-"}
                 /\ \E c \in Range(call_population[k][2]) : c \in Letters

\* C14 witness: of three tokens the first and the last are in the result, the
\* first with its punctuation, and the one with a digit is left out.
C14_Witness ==
    /\ pc = "returned"
    /\ Len(call_words) = 3
    /\ "1" \in Range(call_words[2])
    /\ Len(call_population) = 2
    /\ call_population[1] = <<0, <<"C","a","t",",">> >>
    /\ call_population[2] = <<2, <<"-","a">> >>

----------------------------------------------------------------------------
\* core.py: _create_display_parts called on its own.

\* Longest token list of a direct call.
MaxDisplayWords == 3

\* Tokens of a direct call: without punctuation, with one and with two
\* trailing punctuation characters, with punctuation on both sides, with
\* inner punctuation only, and of punctuation only.
DisplayVocabulary ==
    { <<"o","n">>,
      <<"C","a","t",",">>,
      <<"x","1",".","?">>,
      <<"(","s","o",")">>,
      <<"a",".","b">>,
      <<"'","!">> }

\* The blank maps over the token positions of words; the value of a key is
\* the answer recorded for its token.
BlankMapsOf(words) ==
    {[p \in keys |-> blank_answer(words[p + 1])] :
        keys \in SUBSET (0..(Len(words) - 1))}

InitDisplay ==
    /\ pc = "called"
    /\ call_words \in SeqsUpTo(DisplayVocabulary, MaxDisplayWords)
    /\ blanks_data \in BlankMapsOf(call_words)
    /\ display_parts = <<>>
    /\ original_full_text = [isStr |-> TRUE, chars |-> <<>>]
    /\ min_blanks = IntArg(0)
    /\ max_blanks = IntArg(0)
    /\ word_bank = <<>>
    /\ num_blanks = 0
    /\ nonadj = EmptyMap
    /\ selected = EmptyMap
    /\ GradingIdle
    /\ call_population_size = 0
    /\ call_population = <<>>
    /\ call_slider_value = [isNum |-> TRUE, halves |-> 10]
    /\ call_text_length = IntArg(0)
    /\ call_min_percentage = IntArg(0)
    /\ call_max_percentage = IntArg(0)
    /\ request = NoRequest
    /\ status = 0
    /\ include_decoys = FALSE
    /\ exercise_title = <<>>

\* One call of _create_display_parts.
CreateDisplayParts ==
    /\ pc = "called"
    /\ display_parts' = _create_display_parts(call_words, blanks_data)
    /\ pc' = "returned"
    /\ UNCHANGED <<original_full_text, min_blanks, max_blanks, blanks_data,
                   word_bank, num_blanks, nonadj, selected>>
    /\ UNCHANGED grading_vars
    /\ UNCHANGED helper_vars

NextDisplay == CreateDisplayParts

SpecDisplay == InitDisplay /\ [][NextDisplay]_vars

EndsInPunctuation(t) == t # <<>> /\ t[Len(t)] \in PUNCTUATION

\* What is left of the token after its longest punctuation-free-ended prefix.
TrailingPunctuation(t) ==
    SubSeq(t, Len(rstrip(t, PUNCTUATION)) + 1, Len(t))

\* The blanked positions whose token ends in punctuation.
PunctuatedBlanks ==
    {p \in DOMAIN blanks_data : EndsInPunctuation(call_words[p + 1])}

\* Where the first entry of token i stands in the display sequence.
DisplayIndex(i) == 1 + i + Cardinality({p \in PunctuatedBlanks : p < i})

\* C15: the display sequence has, in token order, the token itself for a
\* position outside the blank map and, for a position i in it, BLANK_i
\* followed by the token's trailing punctuation only when there is some; its
\* length is the token count plus the number of blanked tokens ending in
\* punctuation.
C15_DisplayFollowsTokens ==
    pc = "returned"
        => /\ Len(display_parts)
                 = Len(call_words) + Cardinality(PunctuatedBlanks)
           /\ \A i \in 0..(Len(call_words) - 1) :
                 IF i \in DOMAIN blanks_data
                 THEN /\ display_parts[DisplayIndex(i)]
                            = BLANK_PREFIX \o <<Digits[i + 1]>>
                      /\ i \in PunctuatedBlanks
                            => display_parts[DisplayIndex(i) + 1]
                                  = TrailingPunctuation(call_words[i + 1])
                 ELSE display_parts[DisplayIndex(i)] = call_words[i + 1]

\* C15 witness: a blanked token with two trailing punctuation characters, a
\* token left as it is, and a blanked token without trailing punctuation.
C15_Witness ==
    /\ pc = "returned"
    /\ call_words = << <<"x","1",".","?">>, <<"C","a","t",",">>, <<"a",".","b">> >>
    /\ DOMAIN blanks_data = {0, 2}
    /\ display_parts = << <<"B","L","A","N","K","_","0">>, <<".","?">>,
                          <<"C","a","t",",">>,
                          <<"B","L","A","N","K","_","2">> >>

----------------------------------------------------------------------------
\* network.py: the blank range of a slider value and a text length.

\* int(x) of a float product whose exact value is num / den (num >= 0): the
\* floor of the exact value, or one less when the exact value is a positive
\* integer that the binary product can fall just short of.
truncated_product(num, den) ==
    IF num > 0 /\ num % den = 0
    THEN {(num \div den) - 1, num \div den}
    ELSE {num \div den}

\* Mutant: the maximum is the truncated product itself.
min_max_without_floor(min_product, max_product) ==
    <<Max2(1, min_product), max_product>>

\* network.py:98-99: min floored at 1, max floored at min + 1.
min_max_with_floor(min_product, max_product) ==
    <<Max2(1, min_product), Max2(Max2(1, min_product) + 1, max_product)>>

\* The pairs _compute_min_max_blanks can return.  The slider is counted in
\* halves; percentage is
\*   (min_percentage + ((slider - 1) / 9) * (max_percentage - min_percentage)) / 100
\* and the two products are (text_length / 5) * percentage * 0.8 and * 1.2,
\* here over the common denominator 90000.
_compute_min_max_blanks(slider, text_length, min_percentage, max_percentage) ==
    IF \/ ~slider.isNum
       \/ ~text_length.isInt
       \/ ~min_percentage.isInt
       \/ ~max_percentage.isInt
    THEN {<<1, 2>>}
    ELSE IF text_length.val <= 0 THEN {<<1, 2>>}
    ELSE IF \/ min_percentage.val < 0 \/ max_percentage.val < 0
            \/ min_percentage.val > 100 \/ max_percentage.val > 100
    THEN {<<1, 2>>}
    ELSE LET lo == Min2(min_percentage.val, max_percentage.val)
             hi == Max2(min_percentage.val, max_percentage.val)
             offset_halves == Max2(2, Min2(20, slider.halves)) - 2
             scaled == text_length.val * (18 * lo + offset_halves * (hi - lo))
         IN  {min_max_with_floor(a, b) :
                 a \in truncated_product(scaled * 8, 90000),
                 b \in truncated_product(scaled * 12, 90000)}

\* Largest slider value of a direct call, in halves.
MaxSliderHalves == 22

\* Largest text length of a direct call, besides the long ones.
MaxTextLength == 60

NumArg(halves) == [isNum |-> TRUE, halves |-> halves]

\* A slider value float() rejects (None, "abc").
NonNumArg == [isNum |-> FALSE, halves |-> 0]

SliderArgs == {NumArg(h) : h \in (-2)..MaxSliderHalves} \cup {NonNumArg}

LengthArgs ==
    {IntArg(n) : n \in (-1)..MaxTextLength}
    \cup {IntArg(150), IntArg(300), IntArg(750), IntArg(2000)}
    \cup {NonIntArg}

PercentagePairs ==
    {<<IntArg(5), IntArg(25)>>, <<IntArg(25), IntArg(5)>>,
     <<IntArg(0), IntArg(100)>>, <<IntArg(0), IntArg(0)>>,
     <<IntArg(100), IntArg(100)>>, <<IntArg(-1), IntArg(5)>>,
     <<IntArg(5), IntArg(101)>>, <<NonIntArg, IntArg(25)>>}

InitRange ==
    /\ pc = "called"
    /\ call_slider_value \in SliderArgs
    /\ call_text_length \in LengthArgs
    /\ \E p \in PercentagePairs :
          call_min_percentage = p[1] /\ call_max_percentage = p[2]
    /\ GenerationIdle
    /\ GradingIdle
    /\ call_population_size = 0
    /\ call_words = <<>>
    /\ call_population = <<>>
    /\ request = NoRequest
    /\ status = 0
    /\ include_decoys = FALSE
    /\ exercise_title = <<>>

\* One call of _compute_min_max_blanks; the result is kept as the range
\* handed on to the generator.
ComputeMinMaxBlanks ==
    /\ pc = "called"
    /\ \E r \in _compute_min_max_blanks(call_slider_value, call_text_length,
                                        call_min_percentage,
                                        call_max_percentage) :
          /\ min_blanks' = IntArg(r[1])
          /\ max_blanks' = IntArg(r[2])
    /\ pc' = "returned"
    /\ UNCHANGED <<original_full_text, display_parts, blanks_data, word_bank,
                   num_blanks, nonadj, selected>>
    /\ UNCHANGED grading_vars
    /\ UNCHANGED helper_vars

NextRange == ComputeMinMaxBlanks

SpecRange == InitRange /\ [][NextRange]_vars

ValidRangeCall ==
    /\ call_slider_value.isNum
    /\ call_text_length.isInt /\ call_text_length.val > 0
    /\ call_min_percentage.isInt /\ call_max_percentage.isInt
    /\ call_min_percentage.val \in 0..100
    /\ call_max_percentage.val \in 0..100

C17_DefaultPathReached ==
    /\ pc = "returned"
    /\ ~ValidRangeCall
    /\ min_blanks.val = 1
    /\ max_blanks.val = 2

\* A valid call with a range well above the floors.
C17_WideRangeReached ==
    /\ pc = "returned"
    /\ ValidRangeCall
    /\ min_blanks.val >= 3
    /\ max_blanks.val >= min_blanks.val + 2

----------------------------------------------------------------------------
\* network.py: the /reblank endpoint.

\* Most words of a text of short words sent to /reblank.
MaxReblankWords == 10

\* Most words of a text of long words sent to /reblank.
MaxReblankLongWords == 5

\* Largest slider_value sent to /reblank.
MaxLevel == 11

LongWord == <<"b","l","a","c","k","b","o","a","r","d","s">>

RECURSIVE copies(_, _)
copies(token, n) == IF n = 0 THEN <<>> ELSE <<token>> \o copies(token, n - 1)

ReblankTexts ==
    {[isStr |-> TRUE, chars |-> c] :
        c \in {join(copies(<<"o","n">>, n)) : n \in 1..MaxReblankWords}
              \cup {join(copies(LongWord, n)) : n \in 1..MaxReblankLongWords}
              \cup {<<"7">>, <<>>, <<" ", " ">>}}
    \cup {[isStr |-> FALSE, chars |-> <<>>]}

ReblankSliders ==
    {[given |-> TRUE, isInt |-> TRUE, val |-> v] : v \in 0..MaxLevel}
    \cup {[given |-> TRUE, isInt |-> FALSE, val |-> 0], NoSlider}

ReblankRequests ==
    {[is_json |-> TRUE, has_data |-> TRUE, original_text |-> t,
      slider_value |-> v] : t \in ReblankTexts, v \in ReblankSliders}
    \cup {NoRequest, [NoRequest EXCEPT !.is_json = TRUE]}

\* network.py:455-463: the slider value of the body as an int in 1..10, 5 when
\* absent or not an int.
reblank_slider_value(data) ==
    IF ~data.slider_value.given THEN 5
    ELSE IF ~data.slider_value.isInt THEN 5
    ELSE Max2(1, Min2(10, data.slider_value.val))

\* Mutant: the length handed on is the number of words.
word_count_of(original_text) == Len(split(original_text.chars))

\* network.py:468: len(original_text), the number of characters.
text_length_of(original_text) == Len(original_text.chars)

InitReblank ==
    /\ pc = "called"
    /\ request \in ReblankRequests
    /\ status = 0
    /\ GenerationIdle
    /\ GradingIdle
    /\ call_population_size = 0
    /\ call_words = <<>>
    /\ call_population = <<>>
    /\ call_slider_value = [isNum |-> TRUE, halves |-> 10]
    /\ call_text_length = IntArg(0)
    /\ call_min_percentage = IntArg(0)
    /\ call_max_percentage = IntArg(0)
    /\ include_decoys = FALSE
    /\ exercise_title = <<>>

\* One POST to /reblank, from the checks of the body to the session update.
Reblank ==
    /\ pc = "called"
    /\ pc' = "returned"
    /\ IF \/ ~request.is_json
          \/ ~request.has_data
          \/ ~request.original_text.isStr
          \/ request.original_text.chars = <<>>
          \/ strip(request.original_text.chars, Whitespace) = <<>>
       THEN /\ status' = 400
            /\ UNCHANGED generation_vars
       ELSE \E r \in _compute_min_max_blanks(
                        NumArg(2 * reblank_slider_value(request)),
                        IntArg(text_length_of(request.original_text)),
                        IntArg(5), IntArg(25)) :
            \E run \in generate_exercise_data(request.original_text,
                                              IntArg(r[1]), IntArg(r[2])) :
               /\ min_blanks' = IntArg(r[1])
               /\ max_blanks' = IntArg(r[2])
               /\ num_blanks' = run.num_blanks
               /\ nonadj' = run.nonadj
               /\ selected' = run.selected
               /\ IF \/ run.display_parts = <<>>
                     \/ run.blanks_data = EmptyMap
                     \/ run.word_bank = <<>>
                  THEN /\ status' = 500
                       /\ UNCHANGED <<display_parts, blanks_data, word_bank,
                                      original_full_text>>
                  ELSE /\ status' = 200
                       /\ display_parts' = run.display_parts
                       /\ blanks_data' = run.blanks_data
                       /\ word_bank' = run.word_bank
                       /\ original_full_text' = request.original_text
    /\ UNCHANGED <<request, include_decoys, exercise_title, call_population_size, call_words,
                   call_population, call_slider_value, call_text_length,
                   call_min_percentage, call_max_percentage>>
    /\ UNCHANGED grading_vars

NextReblank == Reblank

SpecReblank == InitReblank /\ [][NextReblank]_vars

\* The difficulty level a request asks for.
RequestedLevel ==
    IF request.slider_value.given /\ request.slider_value.isInt
    THEN (IF request.slider_value.val < 1 THEN 1
          ELSE IF request.slider_value.val > 10 THEN 10
          ELSE request.slider_value.val)
    ELSE 5

\* Nine times the percentage of the level: 5% at level 1, 25% at level 10.
NinePercentages == 45 + 20 * (RequestedLevel - 1)

\* floor(x) for x = num / den as a float product gives it: a <= x < a + 1, or
\* x = a + 1 rounded just below.
IsFloorOf(a, num, den) == a * den <= num /\ num <= (a + 1) * den

\* (min, max) = (max(1, floor(n * pct * 0.8)), max(min + 1, floor(n * pct *
\* 1.2))) for the word estimate n = units / per.
RangeComesFrom(units, per) ==
    \E a, b \in 0..units :
        /\ IsFloorOf(a, units * NinePercentages * 8, 9000 * per)
        /\ IsFloorOf(b, units * NinePercentages * 12, 9000 * per)
        /\ min_blanks.val = Max2(1, a)
        /\ max_blanks.val = Max2(min_blanks.val + 1, b)

\* C18 (as stated): the range /reblank computes comes from the number of
\* words W of the text.
C18_RangeFromWordCount ==
    (pc = "returned" /\ status = 200)
        => RangeComesFrom(Len(split(request.original_text.chars)), 1)

\* C18 (amended): the range /reblank computes comes from the number of
\* characters of the text divided by 5.
C18_RangeFromCharacterCount ==
    (pc = "returned" /\ status = 200)
        => RangeComesFrom(Len(request.original_text.chars), 5)

\* C18 witness: five long words at level 10 get the range (2, 3) of their 59
\* characters, which is not the range of five words.
C18_Witness ==
    /\ pc = "returned"
    /\ status = 200
    /\ RequestedLevel = 10
    /\ Len(split(request.original_text.chars)) = 5
    /\ Len(request.original_text.chars) = 59
    /\ min_blanks.val = 2
    /\ max_blanks.val = 3
    /\ ~RangeComesFrom(5, 1)

\* A request refused for its body.
C18_RefusedReached == pc = "returned" /\ status = 400 /\ request.has_data

----------------------------------------------------------------------------
\* app.py: the POST handler of the single-file application.

\* Number of blanks of a submitted exercise.
MaxAppBlanks == 2

\* request.form: the BLANK_<i> fields, each present or not.
AppFormKeys == {placeholder(i) : i \in 0..(MaxAppBlanks - 1)}

AppSubmittedAnswers ==
    { <<"c","a","t">>, <<" ","C","a","t"," ">>, <<"C","A","T">>, <<"d","o","g">> }

AppForms == MapsOver(AppFormKeys, AppSubmittedAnswers)

\* The answers app.py records (app.py:146): the token without its outer
\* punctuation, in the letter case of the text.
AppRecordedAnswers == { <<"c","a","t">>, <<"C","a","t">> }

\* correct_answers_json decoded by json.loads: an object with the positions
\* as strings for keys.
AppCorrectAnswersJson ==
    MapsOver({int_to_str(i) : i \in 0..(MaxAppBlanks - 1)}, AppRecordedAnswers)

\* app.py:276-280: the BLANK_ fields by position, trimmed and lowercased.
app_user_answers(form) ==
    LET keys == {key \in DOMAIN form : startswith(key, BLANK_PREFIX)}
        index_of(key) == int_value(split_on(key, "_")[2])
    IN  [index \in {index_of(key) : key \in keys} |->
            lower(strip(form[CHOOSE key \in keys : index_of(key) = index],
                        Whitespace))]

\* app.py:287-288: {int(k): v for k, v in correct_answers.items()}
app_correct_answers(decoded) ==
    [index \in {int_value(k) : k \in DOMAIN decoded} |->
        decoded[CHOOSE k \in DOMAIN decoded : int_value(k) = index]]

\* app.py:313-326: (results, score, total_blanks) of the loop over
\* correct_answers.
app_grade(answers, correct_answers) ==
    LET user_word(index) == IF index \in DOMAIN answers
                            THEN answers[index] ELSE <<>>
        verdicts == [index \in DOMAIN correct_answers |->
                        [user |-> user_word(index),
                         correct |-> correct_answers[index],
                         is_correct |-> user_word(index) = correct_answers[index]]]
    IN  [results |-> verdicts,
         score |-> Cardinality({index \in DOMAIN verdicts :
                                   verdicts[index].is_correct}),
         total |-> Cardinality(DOMAIN correct_answers)]

InitAppPost ==
    /\ pc = "submitted"
    /\ user_answers \in AppForms
    /\ blanks_data \in AppCorrectAnswersJson
    /\ results = EmptyMap
    /\ score = 0
    /\ total_blanks = 0
    /\ original_full_text = [isStr |-> TRUE, chars |-> <<>>]
    /\ min_blanks = IntArg(0)
    /\ max_blanks = IntArg(0)
    /\ display_parts = <<>>
    /\ word_bank = <<>>
    /\ num_blanks = 0
    /\ nonadj = EmptyMap
    /\ selected = EmptyMap
    /\ HelpersIdle

\* One POST to "/" of app.py with well-formed JSON fields.
ProcessPostRequest ==
    /\ pc = "submitted"
    /\ LET graded == app_grade(app_user_answers(user_answers),
                               app_correct_answers(blanks_data))
       IN  /\ results' = graded.results
           /\ score' = graded.score
           /\ total_blanks' = graded.total
    /\ pc' = "graded"
    /\ UNCHANGED <<user_answers>>
    /\ UNCHANGED generation_vars
    /\ UNCHANGED helper_vars

NextAppPost == ProcessPostRequest

SpecAppPost == InitAppPost /\ [][NextAppPost]_vars

\* The positions whose submitted field equals the recorded answer once both
\* are trimmed and lowercased.
AppMatchingPositions ==
    {i \in 0..(MaxAppBlanks - 1) :
        /\ int_to_str(i) \in DOMAIN blanks_data
        /\ placeholder(i) \in DOMAIN user_answers
        /\ Normalised(user_answers[placeholder(i)])
              = Normalised(blanks_data[int_to_str(i)])}

\* C19 (as stated): in app.py every submitted answer equal to the recorded
\* one after trimming and lowercasing both is reported correct and counted
\* in the score, also when the recorded answer has an upper-case letter.
C19_AppGradesCaseInsensitively ==
    pc = "graded"
        => /\ \A i \in AppMatchingPositions :
                 i \in DOMAIN results /\ results[i].is_correct
           /\ score >= Cardinality(AppMatchingPositions)

\* A recorded answer in lower case graded correct against " Cat ".
C19_LowerCaseAnswerGradedCorrect ==
    /\ pc = "graded"
    /\ \E i \in DOMAIN results :
          /\ placeholder(i) \in DOMAIN user_answers
          /\ user_answers[placeholder(i)] = <<" ","C","a","t"," ">>
          /\ results[i].correct = <<"c","a","t">>
          /\ results[i].is_correct

----------------------------------------------------------------------------
\* english_tests/core.py: the word bank builder with decoys.  Its code is
\* not part of the sources at hand (src/src/english_tests/network.py only
\* calls it), so it is written down from section 4.5 of the specification.

\* Longest token list handed to the builder.
MaxDecoyWords == 3

\* Most blanks of a blank map handed to the builder.
MaxDecoyBlanks == 2

\* Mutant: a word is left out of the decoys only when it is a blank value
\* letter for letter.
is_decoy_candidate_case_sensitive(word, blanks) ==
    /\ is_blank_candidate(word)
    /\ \A p \in DOMAIN blanks : strip(word, PUNCTUATION) # blanks[p]
    /\ Len(strip(word, PUNCTUATION)) > 2

\* An eligible word that is (a) no blank value, compared case-insensitively
\* without punctuation, and (b) longer than 2 characters after stripping.
is_decoy_candidate(word, blanks) ==
    /\ is_blank_candidate(word)
    /\ \A p \in DOMAIN blanks :
          lower(strip(word, PUNCTUATION)) # lower(blanks[p])
    /\ Len(strip(word, PUNCTUATION)) > 2

\* Deduplicate case-insensitively, preserving the first occurrence.
dedupe(seq) ==
    LET idxs == SelectSeq([i \in 1..Len(seq) |-> i],
                          LAMBDA i : \A j \in 1..(i - 1) :
                                        lower(seq[j]) # lower(seq[i]))
    IN  [k \in 1..Len(idxs) |-> seq[idxs[k]]]

\* The decoys available for a blank map among the tokens of the text.
available_decoys(blanks, allTokens) ==
    LET kept == SelectSeq(allTokens, LAMBDA w : is_decoy_candidate(w, blanks))
    IN  dedupe([k \in 1..Len(kept) |-> strip(kept[k], PUNCTUATION)])

\* The counts the draw "between 50% and 75% of the base bank size, at least
\* 1, capped at the number of available decoys" can give; the rounding of the
\* two ends is left open by the text, so both are taken at their widest.
decoy_counts(base_size, available) ==
    {Min2(available, Max2(1, k)) :
        k \in (base_size \div 2)..((3 * base_size + 3) \div 4)}

\* build(blanks, includeDecoys, allTokens): every word bank it can return.
build(blanks, includeDecoys, allTokens) ==
    LET base == values_of(blanks)
        available == available_decoys(blanks, allTokens)
    IN  IF ~includeDecoys \/ available = <<>> THEN shuffle(base)
        ELSE UNION
             {shuffle(base \o SelectSeq(available, LAMBDA w : w \in chosen)) :
                 chosen \in {c \in SUBSET Range(available) :
                                Cardinality(c)
                                   \in decoy_counts(Len(base), Len(available))}}

\* Tokens of a text: a word in two letter cases, with and without
\* punctuation, a second word in two letter cases, a word of two letters and
\* a token with a digit.
DecoyVocabulary ==
    { <<"C","a","t",",">>,
      <<"c","a","t">>,
      <<"d","o","g","s",".">>,
      <<"D","o","g","s">>,
      <<"o","n">>,
      <<"x","1">> }

\* The blank maps a selection can give for words: some eligible positions,
\* each with the answer recorded for its token.
DecoyBlankMaps(words) ==
    {[p \in keys |-> blank_answer(words[p + 1])] :
        keys \in {K \in SUBSET {i \in 0..(Len(words) - 1) :
                                   is_blank_candidate(words[i + 1])} :
                     Cardinality(K) \in 1..MaxDecoyBlanks}}

InitDecoys ==
    /\ pc = "called"
    /\ call_words \in SeqsUpTo(DecoyVocabulary, MaxDecoyWords)
    /\ blanks_data \in DecoyBlankMaps(call_words)
    /\ include_decoys \in BOOLEAN
    /\ exercise_title = <<>>
    /\ word_bank = <<>>
    /\ original_full_text = [isStr |-> TRUE, chars |-> <<>>]
    /\ min_blanks = IntArg(0)
    /\ max_blanks = IntArg(0)
    /\ display_parts = <<>>
    /\ num_blanks = 0
    /\ nonadj = EmptyMap
    /\ selected = EmptyMap
    /\ GradingIdle
    /\ call_population_size = 0
    /\ call_population = <<>>
    /\ call_slider_value = [isNum |-> TRUE, halves |-> 10]
    /\ call_text_length = IntArg(0)
    /\ call_min_percentage = IntArg(0)
    /\ call_max_percentage = IntArg(0)
    /\ request = NoRequest
    /\ status = 0

\* One call of the builder; the draw of the decoys and the shuffle pick the
\* bank.
BuildWordBank ==
    /\ pc = "called"
    /\ word_bank' \in build(blanks_data, include_decoys, call_words)
    /\ pc' = "returned"
    /\ UNCHANGED <<original_full_text, min_blanks, max_blanks, display_parts,
                   blanks_data, num_blanks, nonadj, selected>>
    /\ UNCHANGED grading_vars
    /\ UNCHANGED helper_vars

NextDecoys == BuildWordBank

SpecDecoys == InitDecoys /\ [][NextDecoys]_vars

\* How many entries of seq equal v when letter case is ignored.
OccurrencesIgnoringCase(seq, v) ==
    Cardinality({i \in DOMAIN seq : lower(seq[i]) = lower(v)})

EligibleCallPositions ==
    {i \in 0..(Len(call_words) - 1) : HasAlphabeticCore(call_words[i + 1])}

\* The different words, letter case ignored, among the eligible tokens that
\* are no blank value and longer than 2 characters without punctuation.
DecoyCandidates ==
    {lower(strip(call_words[i], PUNCTUATION)) :
        i \in {j \in DOMAIN call_words :
                  /\ (j - 1) \in EligibleCallPositions
                  /\ Len(strip(call_words[j], PUNCTUATION)) > 2
                  /\ \A p \in DOMAIN blanks_data :
                        lower(strip(call_words[j], PUNCTUATION))
                           # lower(blanks_data[p])}}

\* C20: with decoys included, the word bank holds every blank value once per
\* blank, every other entry differs from every blank value whatever the
\* letter case, and when a candidate exists the number of decoys is at least
\* 1 and at most the number of candidates.
C20_DecoysAreNoAnswers ==
    (pc = "returned" /\ include_decoys)
        => /\ \A v \in Range(blanks_data) :
                 /\ Occurrences(word_bank, v) = Occurrences(blanks_data, v)
                 /\ OccurrencesIgnoringCase(word_bank, v)
                       = OccurrencesIgnoringCase(blanks_data, v)
           /\ Len(word_bank) - Cardinality(DOMAIN blanks_data)
                 <= Cardinality(DecoyCandidates)
           /\ DecoyCandidates # {}
                 => Len(word_bank) - Cardinality(DOMAIN blanks_data) >= 1

\* C20 witness: "Cat" is blanked, "cat" and "dogs"/"Dogs" are in the text,
\* and the bank is the answer with the one decoy "dogs".
C20_Witness ==
    /\ pc = "returned"
    /\ include_decoys
    /\ Range(blanks_data) = { <<"C","a","t">> }
    /\ \E i \in DOMAIN call_words : call_words[i] = <<"c","a","t">>
    /\ \E i \in DOMAIN call_words : call_words[i] = <<"d","o","g","s",".">>
    /\ Len(word_bank) = 2
    /\ <<"d","o","g","s">> \in Range(word_bank)

----------------------------------------------------------------------------
\* Further properties of grading (SpecGrade).

CorrectPositions == {p \in DOMAIN results : results[p].is_correct}

\* The display entries that are markers of a position graded correct.
CorrectMarkerEntries ==
    {i \in MarkerEntries(display_parts) :
        placeholder_index(display_parts[i]) \in CorrectPositions}

----------------------------------------------------------------------------
\* network.py: _evaluate_answers on what the session hands back: a blank map
\* with str keys and a display sequence that may hold malformed entries.

\* Longest display sequence read back from the session.
MaxStoredDisplay == 3

\* The positions a stored blank map can hold.
StoredPositions == {0, 1}

\* Stands for a display entry that is not a str (None, a number).
NonStrEntry == <<"<not a str>">>

\* Placeholders of the stored positions, a BLANK_ entry with a position that
\* is no integer, one with an empty position, an entry that is no str, and an
\* ordinary token.
StoredDisplayEntries ==
    {placeholder(i) : i \in StoredPositions}
    \cup { <<"B","L","A","N","K","_","x">>,
           <<"B","L","A","N","K","_">>,
           NonStrEntry,
           <<"t","h","e">> }

StoredDisplaySequences == SeqsUpTo(StoredDisplayEntries, MaxStoredDisplay)

\* The blank maps as the session returns them: the positions as decimal
\* strings.
StoredBlankMaps ==
    MapsOver({int_to_str(i) : i \in StoredPositions}, RecordedAnswers)

StoredSubmissions ==
    MapsOver(StoredPositions, {<<"C","a","t"," ">>})

InitGradeStored ==
    /\ pc = "submitted"
    /\ display_parts \in StoredDisplaySequences
    /\ blanks_data \in StoredBlankMaps
    /\ user_answers \in StoredSubmissions
    /\ results = EmptyMap
    /\ score = 0
    /\ total_blanks = 0
    /\ original_full_text = [isStr |-> TRUE, chars |-> <<>>]
    /\ min_blanks = IntArg(0)
    /\ max_blanks = IntArg(0)
    /\ word_bank = <<>>
    /\ num_blanks = 0
    /\ nonadj = EmptyMap
    /\ selected = EmptyMap
    /\ HelpersIdle

\* One call of _evaluate_answers on the stored exercise.
EvaluateStored ==
    /\ pc = "submitted"
    /\ LET graded == _evaluate_answers_stored(user_answers, blanks_data,
                                              display_parts)
       IN  /\ results' = graded.results
           /\ score' = graded.score
           /\ total_blanks' = graded.total
    /\ pc' = "graded"
    /\ UNCHANGED <<user_answers>>
    /\ UNCHANGED generation_vars
    /\ UNCHANGED helper_vars

NextGradeStored == EvaluateStored

SpecGradeStored == InitGradeStored /\ [][NextGradeStored]_vars

\* The stored blank map with the integers its keys are the decimal forms of.
IntegerKeyed ==
    [i \in {j \in StoredPositions : int_to_str(j) \in DOMAIN blanks_data}
        |-> blanks_data[int_to_str(i)]]

Returned == [results |-> results, score |-> score, total |-> total_blanks]

\* C24: grading with the keys of the blank map as decimal strings returns
\* the (results, score, total) of grading with the integer keys, and the
\* results are keyed by integer position.
C24_StringKeysGradeAsIntegerKeys ==
    pc = "graded"
        => /\ Returned = _evaluate_answers(user_answers, IntegerKeyed,
                                           display_parts)
           /\ DOMAIN results \subseteq StoredPositions

\* C24 witness: both stored positions graded from string keys, one correct.
C24_Witness ==
    /\ pc = "graded"
    /\ DOMAIN blanks_data = {<<"0">>, <<"1">>}
    /\ DOMAIN results = {0, 1}
    /\ score = 1
    /\ total_blanks = 2

\* A display entry the grader cannot decode a position from although it is
\* no ordinary token: not a str, or BLANK_ without an integer position.
Malformed(e) ==
    \/ ~is_str(e)
    \/ /\ Len(e) >= 6
       /\ SubSeq(e, 1, 6) = <<"B","L","A","N","K","_">>
       /\ ~IsBlankMarker(e)

WithoutEntry(parts, i) ==
    SubSeq(parts, 1, i - 1) \o SubSeq(parts, i + 1, Len(parts))

\* C25: a malformed display entry is skipped: total counts the well-formed
\* placeholders only, every results entry belongs to one of them, and the
\* outcome is that of the display sequence without the malformed entry.
C25_MalformedEntrySkipped ==
    pc = "graded"
        => /\ total_blanks = Cardinality(MarkerEntries(display_parts))
           /\ \A p \in DOMAIN results :
                 \E i \in MarkerEntries(display_parts) :
                    placeholder_index(display_parts[i]) = p
           /\ \A i \in DOMAIN display_parts :
                 Malformed(display_parts[i])
                    => Returned = _evaluate_answers_stored(
                                     user_answers, blanks_data,
                                     WithoutEntry(display_parts, i))

\* C25 witness: an entry that is no str and a BLANK_x between two graded
\* placeholders.
C25_Witness ==
    /\ pc = "graded"
    /\ Len(display_parts) = 3
    /\ display_parts[1] = <<"B","L","A","N","K","_","0">>
    /\ Malformed(display_parts[2])
    /\ display_parts[3] = <<"B","L","A","N","K","_","0">>
    /\ total_blanks = 2
    /\ DOMAIN results = {0}

----------------------------------------------------------------------------
\* core.py: _split_word_and_punctuation called on its own.

\* Longest string of a direct call.
MaxSplitLen == 4

\* A letter, two punctuation characters and a hyphen, which is none.
SplitAlphabet == {"a", ".", "'", "-"}

InitSplit ==
    /\ pc = "called"
    /\ \E w \in SeqsUpTo(SplitAlphabet, MaxSplitLen) : call_words = <<w>>
    /\ call_population = <<>>
    /\ GenerationIdle
    /\ GradingIdle
    /\ call_population_size = 0
    /\ call_slider_value = [isNum |-> TRUE, halves |-> 10]
    /\ call_text_length = IntArg(0)
    /\ call_min_percentage = IntArg(0)
    /\ call_max_percentage = IntArg(0)
    /\ request = NoRequest
    /\ status = 0
    /\ include_decoys = FALSE
    /\ exercise_title = <<>>

\* One call of _split_word_and_punctuation; the pair returned is kept.
SplitWordAndPunctuation ==
    /\ pc = "called"
    /\ call_population' = _split_word_and_punctuation(call_words[1])
    /\ pc' = "returned"
    /\ UNCHANGED <<call_population_size, call_words, call_slider_value,
                   call_text_length, call_min_percentage,
                   call_max_percentage, request, status, include_decoys, exercise_title>>
    /\ UNCHANGED generation_vars
    /\ UNCHANGED grading_vars

NextSplit == SplitWordAndPunctuation

SpecSplit == InitSplit /\ [][NextSplit]_vars

\* C26: the two parts returned for w concatenate to w, the second holds
\* punctuation only, and the first is empty or ends outside the punctuation
\* set.
C26_SplitIsMaximalSuffix ==
    pc = "returned"
        => LET word_part == call_population[1]
               punct_part == call_population[2]
           IN  /\ word_part \o punct_part = call_words[1]
               /\ \A i \in 1..Len(punct_part) : punct_part[i] \in PUNCTUATION
               /\ \/ word_part = <<>>
                  \/ word_part[Len(word_part)] \notin PUNCTUATION

\* C26 witness: a word with inner punctuation and two trailing punctuation
\* characters.
C26_Witness ==
    /\ pc = "returned"
    /\ call_words[1] = <<"a", "'", "-", ".">>
    /\ call_population = << <<"a", "'", "-">>, <<".">> >>

\* A string of punctuation only is all suffix.
C26_AllPunctuationReached ==
    /\ pc = "returned"
    /\ call_words[1] = <<".", "'">>
    /\ call_population = << <<>>, <<".", "'">> >>

----------------------------------------------------------------------------
\* core.py: _select_blanks called on its own.

\* Longest token list of a direct call of _select_blanks.
MaxSelectWords == 6

\* Largest min_blanks / max_blanks of a direct call of _select_blanks.
MaxSelectArg == 3

InitSelect ==
    /\ pc = "called"
    /\ call_words \in SeqsUpTo(SmallVocabulary, MaxSelectWords)
    /\ \E a, b \in 0..MaxSelectArg :
          a <= b /\ min_blanks = IntArg(a) /\ max_blanks = IntArg(b)
    /\ call_population = <<>>
    /\ num_blanks = 0
    /\ nonadj = EmptyMap
    /\ selected = EmptyMap
    /\ original_full_text = [isStr |-> TRUE, chars |-> <<>>]
    /\ display_parts = <<>>
    /\ blanks_data = EmptyMap
    /\ word_bank = <<>>
    /\ GradingIdle
    /\ call_population_size = 0
    /\ call_slider_value = [isNum |-> TRUE, halves |-> 10]
    /\ call_text_length = IntArg(0)
    /\ call_min_percentage = IntArg(0)
    /\ call_max_percentage = IntArg(0)
    /\ request = NoRequest
    /\ status = 0
    /\ include_decoys = FALSE
    /\ exercise_title = <<>>

\* One call of _select_blanks: the population, the count, the non-adjacent
\* pass and the value returned.
SelectBlanks ==
    /\ pc = "called"
    /\ call_population' = _get_blank_selection_population(call_words)
    /\ \E run \in _select_blanks(call_words, min_blanks, max_blanks) :
          /\ num_blanks' = run.num_blanks
          /\ nonadj' = run.nonadj
          /\ selected' = run.blanks
    /\ pc' = "returned"
    /\ UNCHANGED <<original_full_text, min_blanks, max_blanks, display_parts,
                   blanks_data, word_bank>>
    /\ UNCHANGED <<call_population_size, call_words, call_slider_value,
                   call_text_length, call_min_percentage,
                   call_max_percentage, request, status, include_decoys, exercise_title>>
    /\ UNCHANGED grading_vars

NextSelect == SelectBlanks

SpecSelect == InitSelect /\ [][NextSelect]_vars

\* ceil(n / 3)
ThirdRoundedUp(n) == (n + 2) \div 3

\* C27: for a population of n positions and 1 <= count <= ceil(n / 3) the
\* non-adjacent pass returns exactly count entries, so _select_blanks
\* returns its result, which has no two adjacent keys.
C27_NonAdjacentPassSucceedsUpToThird ==
    pc = "returned"
        => LET n == Len(call_population)
           IN  /\ \A count \in 1..ThirdRoundedUp(n) :
                     \A m \in _select_non_adjacent_blanks(call_population, count) :
                        /\ Cardinality(DOMAIN m) = count
                        /\ NoAdjacentKeys(m)
               /\ (num_blanks >= 1 /\ num_blanks <= ThirdRoundedUp(n))
                     => /\ Cardinality(DOMAIN nonadj) = num_blanks
                        /\ selected = nonadj
                        /\ NoAdjacentKeys(selected)

\* C27 witness: six consecutive eligible positions and count 2 = ceil(6 / 3),
\* met by the picks 1 and 4, which empty the pool.
C27_Witness ==
    /\ pc = "returned"
    /\ PopulationPositions = 0..5
    /\ num_blanks = 2
    /\ DOMAIN nonadj = {1, 4}
    /\ selected = nonadj

\* C28: the non-adjacent pass never picks two adjacent positions and falls
\* short only with its pool empty, every eligible position being picked or
\* next to a picked one, even if count pairwise non-adjacent positions
\* exist; _select_blanks then returns a random sample of count positions of
\* the whole population.
C28_GreedyPassFallsShortOnEmptyPool ==
    pc = "returned"
        => /\ NoAdjacentKeys(nonadj)
           /\ Cardinality(DOMAIN nonadj) < num_blanks
                 => /\ \A p \in PopulationPositions :
                          \E q \in DOMAIN nonadj : q \in {p - 1, p, p + 1}
                    /\ Cardinality(DOMAIN selected) = num_blanks
                    /\ DOMAIN selected \subseteq PopulationPositions

\* C28 witness: six consecutive eligible positions and count 3, for which
\* {0, 2, 4} exists; the pass picked 1 and 4, and the fallback returned
\* adjacent keys.
C28_Witness ==
    /\ pc = "returned"
    /\ PopulationPositions = 0..5
    /\ num_blanks = 3
    /\ DOMAIN nonadj = {1, 4}
    /\ Cardinality(DOMAIN selected) = 3
    /\ ~NoAdjacentKeys(selected)

----------------------------------------------------------------------------
\* Rebuilding the blanked tokens of a generated exercise (SpecGenerate).

\* Where BLANK_p stands in a display sequence (0 when it does not).
PlaceholderIndex(parts, p) ==
    LET at == {k \in 1..Len(parts) : parts[k] = placeholder(p)}
    IN  IF at = {} THEN 0 ELSE CHOOSE k \in at : \A j \in at : k <= j

\* The tokens that BLANK_p can stand for: the recorded answer alone, or the
\* answer followed by the next display entry when that entry is punctuation.
RebuiltTokens(parts, blanks, p) ==
    LET k == PlaceholderIndex(parts, p)
    IN  {blanks[p]}
        \cup (IF k >= 1 /\ k < Len(parts) /\ parts[k + 1] # <<>>
                 /\ Range(parts[k + 1]) \subseteq PUNCTUATION
              THEN {blanks[p] \o parts[k + 1]}
              ELSE {})

\* C29 (as stated): for a text with at least one eligible word, every blanked
\* position has its placeholder in the display sequence, and the recorded
\* answer joined with the split-off punctuation entry that follows the
\* placeholder is the original token at that position.
C29_TokensRebuildFromDisplay ==
    (pc = "generated" /\ original_full_text.isStr)
        => LET words == InputWords
           IN  (\E i \in 1..Len(words) : is_blank_candidate(words[i]))
                  => \A p \in DOMAIN blanks_data :
                        /\ p < Len(words)
                        /\ PlaceholderIndex(display_parts, p) >= 1
                        /\ words[p + 1]
                              \in RebuiltTokens(display_parts, blanks_data, p)

----------------------------------------------------------------------------
\* network.py: the routes of one browser session, request after request.

\* Longest text (in tokens) a /reblank body carries.
MaxSessionWords == 2

\* core.py:21: the text every new exercise is built from while
\* USE_LLM_GENERATION is False, cut down to its first four tokens.
FALLBACK_TEXT ==
    [isStr |-> TRUE,
     chars |-> <<"T","r","a","v","e","l","i","n","g"," ","i","s"," ",
                 "o","f","t","e","n"," ","s","e","e","n">>]

\* The four entries the routes keep in the session.
EmptySession ==
    [display_parts |-> <<>>, blanks_data |-> EmptyMap, word_bank |-> <<>>,
     original_full_text |-> [isStr |-> TRUE, chars |-> <<>>]]

\* The blank map as the next request finds it: the session is a signed JSON
\* cookie, so the positions come back as their decimal strings.
session_keys(blanks) ==
    [k \in {int_to_str(i) : i \in DOMAIN blanks} |->
        blanks[CHOOSE i \in DOMAIN blanks : int_to_str(i) = k]]

\* network.py:485-488 and 582-585: the four assignments to the session.
session_with(parts, blanks, bank, text) ==
    [display_parts |-> parts, blanks_data |-> session_keys(blanks),
     word_bank |-> bank, original_full_text |-> text]

\* The values a request leaves in the variables of a step it does not take.
NoPass ==
    [min_blanks |-> IntArg(0), max_blanks |-> IntArg(0), num_blanks |-> 0,
     nonadj |-> EmptyMap, selected |-> EmptyMap]

NoGrading ==
    [user_answers |-> EmptyMap, results |-> EmptyMap, score |-> 0, total |-> 0]

\* What a handler leaves behind: the status of the response, the point it
\* returned at, the session, and the locals of the steps it took.
outcome(code, at, sess, pass, grading) ==
    [status |-> code, at |-> at, session |-> sess, pass |-> pass,
     grading |-> grading]

\* network.py:113-174: GET / renders what the session holds.
_process_get_request(sess) ==
    {outcome(200, "get_rendered", sess, NoPass, NoGrading)}

\* network.py:177-218: the BLANK_ fields of the form by position, trimmed and
\* lowercased; a field whose position int() rejects is left out.
_extract_user_answers(form) ==
    LET keys == {key \in DOMAIN form :
                    /\ startswith(key, BLANK_PREFIX)
                    /\ int_parses(split_on(key, "_")[2])}
        index_of(key) == int_value(split_on(key, "_")[2])
    IN  [index \in {index_of(key) : key \in keys} |->
            lower(strip(form[CHOOSE key \in keys : index_of(key) = index],
                        Whitespace))]

\* network.py:220-275: display_parts, blanks_data with int keys and
\* original_full_text of the session, each with its default when missing.
_get_exercise_data_from_session(sess) ==
    [display_parts |-> sess.display_parts,
     blanks_data |-> correct_answers_of_stored(sess.blanks_data),
     original_full_text |-> sess.original_full_text]

\* Mutant: the submission is graded whatever the session holds.
_process_post_request_unchecked(sess, form) ==
    LET answers == _extract_user_answers(form)
        stored == _get_exercise_data_from_session(sess)
        graded == _evaluate_answers(answers, stored.blanks_data,
                                    stored.display_parts)
    IN  {outcome(200, "post_graded", sess, NoPass,
                 [user_answers |-> answers, results |-> graded.results,
                  score |-> graded.score, total |-> graded.total])}

\* network.py:367-413: POST / grades the form against the stored exercise.
_process_post_request(sess, form) ==
    IF form = EmptyMap
    THEN {outcome(400, "post_no_form", sess, NoPass, NoGrading)}
    ELSE LET answers == _extract_user_answers(form)
             stored == _get_exercise_data_from_session(sess)
         IN  IF stored.blanks_data = EmptyMap
             THEN {outcome(400, "post_no_exercise", sess, NoPass,
                           [NoGrading EXCEPT !.user_answers = answers])}
             ELSE LET graded == _evaluate_answers(answers, stored.blanks_data,
                                                  stored.display_parts)
                  IN  {outcome(200, "post_graded", sess, NoPass,
                               [user_answers |-> answers,
                                results |-> graded.results,
                                score |-> graded.score,
                                total |-> graded.total])}

\* The locals of a generation pass.
pass_of(r, run) ==
    [min_blanks |-> IntArg(r[1]), max_blanks |-> IntArg(r[2]),
     num_blanks |-> run.num_blanks, nonadj |-> run.nonadj,
     selected |-> run.selected]

\* Mutant: only the exercise is written, the text of the session stays.
store_exercise_keeping_text(sess, at, r, run, text) ==
    IF \/ run.display_parts = <<>>
       \/ run.blanks_data = EmptyMap
       \/ run.word_bank = <<>>
       \/ text.chars = <<>>
    THEN outcome(500, at, sess, pass_of(r, run), NoGrading)
    ELSE outcome(200, at,
                 session_with(run.display_parts, run.blanks_data,
                              run.word_bank, sess.original_full_text),
                 pass_of(r, run), NoGrading)

\* network.py:484-492: what a generation route does with its exercise.
store_exercise(sess, at, r, run, text) ==
    IF \/ run.display_parts = <<>>
       \/ run.blanks_data = EmptyMap
       \/ run.word_bank = <<>>
       \/ text.chars = <<>>
    THEN outcome(500, at, sess, pass_of(r, run), NoGrading)
    ELSE outcome(200, at,
                 session_with(run.display_parts, run.blanks_data,
                              run.word_bank, text),
                 pass_of(r, run), NoGrading)

\* network.py:430-507: POST /reblank builds a new exercise from the text of
\* the body.
reblank(sess, data) ==
    IF \/ ~data.is_json
       \/ ~data.has_data
       \/ ~data.original_text.isStr
       \/ data.original_text.chars = <<>>
       \/ strip(data.original_text.chars, Whitespace) = <<>>
    THEN {outcome(400, "reblank_refused", sess, NoPass, NoGrading)}
    ELSE {store_exercise(sess, "reblank_done", made[1], made[2],
                         data.original_text) :
             made \in
                UNION {{<<r2, run2>> :
                          run2 \in generate_exercise_data(
                                      data.original_text,
                                      IntArg(r2[1]), IntArg(r2[2]))} :
                       r2 \in _compute_min_max_blanks(
                                 NumArg(2 * reblank_slider_value(data)),
                                 IntArg(text_length_of(data.original_text)),
                                 IntArg(5), IntArg(25))}}

\* network.py:524-535: the text_length of the body as an int in 1..500, 80
\* when absent, not an int or not positive.
requested_text_length(data) ==
    IF ~data.text_length.given THEN 80
    ELSE IF ~data.text_length.isInt THEN 80
    ELSE IF data.text_length.val <= 0 THEN 80
    ELSE Min2(500, data.text_length.val)

\* core.py:788-885: the exercise of the fallback text, or the fallback
\* exercise with the fallback text.
get_new_text_and_blanks(min_b, max_b, length) ==
    IF min_b < 0 \/ max_b < 0 \/ length <= 0
    THEN {<<with_selection(_get_fallback_exercise_data, NoSelection),
            FALLBACK_TEXT>>}
    ELSE {<<IF \/ run.display_parts = <<>>
               \/ run.blanks_data = EmptyMap
               \/ run.word_bank = <<>>
            THEN with_selection(_get_fallback_exercise_data, NoSelection)
            ELSE run,
            FALLBACK_TEXT>> :
             run \in generate_exercise_data(FALLBACK_TEXT, IntArg(min_b),
                                            IntArg(max_b))}

\* network.py:510-599: POST /generate_new_text builds a new text and its
\* exercise.
generate_new_text_route(sess, data) ==
    IF ~data.is_json \/ ~data.has_data
    THEN {outcome(400, "generate_refused", sess, NoPass, NoGrading)}
    ELSE {store_exercise(sess, "generate_done", made[1], made[2][1],
                         made[2][2]) :
             made \in
                UNION {{<<r2, g>> :
                          g \in get_new_text_and_blanks(
                                   r2[1], r2[2], requested_text_length(data))} :
                       r2 \in _compute_min_max_blanks(
                                 NumArg(2 * reblank_slider_value(data)),
                                 IntArg(requested_text_length(data)),
                                 IntArg(5), IntArg(25))}}

\* The slider values and text lengths of the bodies: absent, or an int.
SessionSliders ==
    {NoSlider, [given |-> TRUE, isInt |-> TRUE, val |-> 1],
     [given |-> TRUE, isInt |-> TRUE, val |-> 10]}

SessionLengths == {NoSlider, [given |-> TRUE, isInt |-> TRUE, val |-> 20]}

\* The texts of the /reblank bodies: every text of up to MaxSessionWords
\* tokens, a text with punctuated tokens, a blank text, and a body whose
\* original_text is no str.
SessionTexts ==
    {[isStr |-> TRUE, chars |-> join(ws)] :
        ws \in SeqsUpTo(SmallVocabulary, MaxSessionWords)}
    \cup {[isStr |-> TRUE, chars |-> <<"(","s","o",")"," ","C","a","t",",">>],
          [isStr |-> TRUE, chars |-> <<" ">>],
          [isStr |-> FALSE, chars |-> <<>>]}

\* The forms of the submissions: no field, or answers for BLANK_0 and for a
\* field whose position is no integer.
SessionForms ==
    MapsOver({<<"B","L","A","N","K","_","0">>, <<"B","L","A","N","K","_","x">>},
             {<<"O","n"," ">>})

\* A request: its route, and the parts of its body the route reads.
request_to(route, is_json, has_data, text, slider, length, form) ==
    [route |-> route, is_json |-> is_json, has_data |-> has_data,
     original_text |-> text, slider_value |-> slider, text_length |-> length,
     form |-> form]

GetRequests ==
    {request_to("GET /", FALSE, FALSE, EmptySession.original_full_text,
                NoSlider, NoSlider, EmptyMap)}

PostRequests ==
    {request_to("POST /", FALSE, TRUE, EmptySession.original_full_text,
                NoSlider, NoSlider, f) : f \in SessionForms}

ReblankBodies ==
    {request_to("/reblank", TRUE, TRUE, t, v, NoSlider, EmptyMap) :
        t \in SessionTexts, v \in SessionSliders}
    \cup {request_to("/reblank", j, FALSE, EmptySession.original_full_text,
                     NoSlider, NoSlider, EmptyMap) : j \in BOOLEAN}

GenerateBodies ==
    {request_to("/generate_new_text", TRUE, TRUE,
                EmptySession.original_full_text, v, n, EmptyMap) :
        v \in SessionSliders, n \in SessionLengths}
    \cup {request_to("/generate_new_text", j, FALSE,
                     EmptySession.original_full_text, NoSlider, NoSlider,
                     EmptyMap) : j \in BOOLEAN}

\* The session as the request finds it.
Session ==
    [display_parts |-> display_parts, blanks_data |-> blanks_data,
     word_bank |-> word_bank, original_full_text |-> original_full_text]

InitSession ==
    /\ pc = "idle"
    /\ GenerationIdle
    /\ GradingIdle
    /\ HelpersIdle

\* The response to one request and the session it leaves.
Respond(req, done) ==
    /\ request' = req
    /\ status' = done.status
    /\ pc' = done.at
    /\ display_parts' = done.session.display_parts
    /\ blanks_data' = done.session.blanks_data
    /\ word_bank' = done.session.word_bank
    /\ original_full_text' = done.session.original_full_text
    /\ min_blanks' = done.pass.min_blanks
    /\ max_blanks' = done.pass.max_blanks
    /\ num_blanks' = done.pass.num_blanks
    /\ nonadj' = done.pass.nonadj
    /\ selected' = done.pass.selected
    /\ user_answers' = done.grading.user_answers
    /\ results' = done.grading.results
    /\ score' = done.grading.score
    /\ total_blanks' = done.grading.total
    /\ UNCHANGED <<call_population_size, call_words, call_population,
                   call_slider_value, call_text_length, call_min_percentage,
                   call_max_percentage, include_decoys, exercise_title>>

GetIndex ==
    \E req \in GetRequests :
       \E done \in _process_get_request(Session) : Respond(req, done)

PostIndex ==
    \E req \in PostRequests :
       \E done \in _process_post_request(Session, req.form) : Respond(req, done)

PostReblank ==
    \E req \in ReblankBodies :
       \E done \in reblank(Session, req) : Respond(req, done)

PostGenerateNewText ==
    \E req \in GenerateBodies :
       \E done \in generate_new_text_route(Session, req) : Respond(req, done)

NextSession == GetIndex \/ PostIndex \/ PostReblank \/ PostGenerateNewText

SpecSession == InitSession /\ [][NextSession]_vars

\* The routes that build an exercise.
GenerationRoutes == {"/reblank", "/generate_new_text"}

\* The text a successful request of the route stores.
StoredText(req) ==
    IF req.route = "/reblank" THEN req.original_text ELSE FALLBACK_TEXT

\* One request, seen from the session.
C21_Step ==
    /\ request'.route \in {"GET /", "POST /"}
          => UNCHANGED <<display_parts, blanks_data, word_bank,
                         original_full_text>>
    /\ (request'.route \in GenerationRoutes /\ status' >= 400)
          => UNCHANGED <<display_parts, blanks_data, word_bank,
                         original_full_text>>
    /\ (request'.route \in GenerationRoutes /\ status' < 400)
          => /\ status' = 200
             /\ original_full_text' = StoredText(request')
             /\ \E run \in generate_exercise_data(StoredText(request'),
                                                  min_blanks', max_blanks') :
                   /\ display_parts' = run.display_parts
                   /\ blanks_data' = session_keys(run.blanks_data)
                   /\ word_bank' = run.word_bank

\* C21: GET / and POST / leave the session as it is; a /reblank or
\* /generate_new_text request answered with a 4xx or 5xx status leaves
\* display_parts, blanks_data, word_bank and original_full_text as they were,
\* and a successful one replaces all four with the text and the exercise of one
\* run of generate_exercise_data.
C21_SessionWrittenOnlyBySuccessfulGeneration == [][C21_Step]_vars

\* C21 witness: a refused /reblank and a refused /generate_new_text on a
\* session that holds an exercise, and a successful /reblank that followed a
\* successful /generate_new_text.
C21_Witness ==
    /\ pc = "reblank_refused"
    /\ status = 400
    /\ original_full_text = FALLBACK_TEXT
    /\ blanks_data # EmptyMap

C21_ReplacedReached ==
    /\ pc = "reblank_done"
    /\ status = 200
    /\ original_full_text.chars = <<"(","s","o",")"," ","C","a","t",",">>
    /\ DOMAIN blanks_data = {<<"1">>}
    /\ word_bank = << <<"C","a","t">> >>

\* C22: a submission is graded only when the session holds a non-empty blank
\* map, which only a successful /reblank or /generate_new_text stores next to
\* its display sequence and text; a POST / on a session without one is
\* answered 400 and nothing is graded.
C22_GradedOnlyAgainstStoredExercise ==
    /\ pc = "post_graded"
          => /\ status = 200
             /\ blanks_data # EmptyMap
             /\ display_parts # <<>>
             /\ original_full_text.chars # <<>>
             /\ LET graded == _evaluate_answers_stored(user_answers, blanks_data,
                                                       display_parts)
                IN  /\ results = graded.results
                    /\ score = graded.score
                    /\ total_blanks = graded.total
    /\ (pc \in {"post_no_form", "post_no_exercise", "post_graded"}
        /\ blanks_data = EmptyMap)
          => /\ status = 400
             /\ pc # "post_graded"
             /\ results = EmptyMap
             /\ total_blanks = 0

\* C22 witness: a form with an answer submitted to a session in which no
\* exercise was stored.
C22_Witness ==
    /\ pc = "post_no_exercise"
    /\ status = 400
    /\ blanks_data = EmptyMap
    /\ 0 \in DOMAIN user_answers

C22_GradedReached ==
    /\ pc = "post_graded"
    /\ score = 1
    /\ total_blanks = 1

----------------------------------------------------------------------------
\* english_tests/network.py: /get_new_test and /reblank of one session.

\* Longest library text (in tokens).
MaxTestWords == 3

\* The tokens the library texts are cut from.
LibraryTokens ==
    << <<"C","a","t",",">>, <<"o","n">>, <<"d","o","g">>, <<"(","s","o",")">>,
       <<"c","a","t">> >>

\* The exercises of the library by difficulty: a title and a text.
TestLibrary ==
    [x \in {<<"B","1">>, <<"C","1">>} |->
        [exercise_title |-> <<"P","e","t","s">> \o <<" ">> \o x,
         original_full_text |->
            [isStr |-> TRUE,
             chars |-> join(SubSeq(LibraryTokens, 1,
                                   IF x = <<"B","1">> THEN MaxTestWords - 1
                                   ELSE MaxTestWords))]]]

\* The exercise of a text at a difficulty level: the range of the level over
\* the word count, a selection in that range, its display sequence and its
\* word bank; the canned exercise when the text yields no blank.
create_exercise_with_blanks_percentage(text, level, decoys) ==
    LET words == split(text.chars)
    IN  UNION {
          UNION {
            IF sel.blanks = EmptyMap
            THEN {[display_parts |-> _get_fallback_exercise_data.display_parts,
                   blanks_data |-> _get_fallback_exercise_data.blanks_data,
                   word_bank |-> _get_fallback_exercise_data.word_bank]}
            ELSE {[display_parts |-> _create_display_parts(words, sel.blanks),
                   blanks_data |-> sel.blanks,
                   word_bank |-> bank] :
                     bank \in build(sel.blanks, decoys, words)}
            : sel \in _select_blanks(words, IntArg(r[1]), IntArg(r[2]))}
          : r \in _compute_min_max_blanks(NumArg(2 * level),
                                          IntArg(Len(words)),
                                          IntArg(5), IntArg(25))}

\* A library exercise of the difficulty with its blanks, or the canned
\* exercise, its text and no title when the library has none for it.
get_exercise_with_percentage_blanks(level, decoys, difficulty) ==
    IF difficulty \notin DOMAIN TestLibrary
    THEN {[display_parts |-> _get_fallback_exercise_data.display_parts,
           blanks_data |-> _get_fallback_exercise_data.blanks_data,
           word_bank |-> _get_fallback_exercise_data.word_bank,
           original_full_text |->
              [isStr |-> TRUE,
               chars |-> <<"T","h","i","s"," ","i","s"," ","a"," ",
                           "f","a","l","l","b","a","c","k"," ",
                           "t","e","x","t",".">>],
           exercise_title |-> <<>>]}
    ELSE LET entry == TestLibrary[difficulty]
         IN  {[display_parts |-> made.display_parts,
               blanks_data |-> made.blanks_data,
               word_bank |-> made.word_bank,
               original_full_text |-> entry.original_full_text,
               exercise_title |-> entry.exercise_title] :
                 made \in create_exercise_with_blanks_percentage(
                             entry.original_full_text, level, decoys)}

\* english_tests/network.py:30-50: the flag of the body, False when absent.
_get_data_bool(field) == IF field.given THEN field.val ELSE FALSE

\* english_tests/network.py:53-69: the trimmed str of the body, no value
\* (the empty str here) when absent, not a str or blank.
_get_data_str(field) ==
    IF field.isStr THEN strip(field.chars, Whitespace) ELSE <<>>

\* english_tests/network.py:72-93: the slider value as an int in 1..10, 5
\* when absent or not an int.
_get_data_slider(field) ==
    IF ~field.given THEN 5
    ELSE IF ~field.isInt THEN 5
    ELSE Max2(1, Min2(10, field.val))

\* The five entries the routes keep in the session.
EmptyTestSession ==
    [display_parts |-> <<>>, blanks_data |-> EmptyMap, word_bank |-> <<>>,
     original_full_text |-> [isStr |-> TRUE, chars |-> <<>>],
     exercise_title |-> <<>>]

\* What a handler leaves behind: the status, the point it returned at, the
\* session and the flag it read.
test_outcome(code, at, sess, decoys) ==
    [status |-> code, at |-> at, session |-> sess, include_decoys |-> decoys]

\* Mutant: the title of the session is dropped with the old exercise.
store_blanks_without_title(sess, made) ==
    [EmptyTestSession EXCEPT !.display_parts = made.display_parts,
                             !.blanks_data = session_keys(made.blanks_data),
                             !.word_bank = made.word_bank,
                             !.original_full_text = sess.original_full_text]

\* english_tests/network.py:473-479: the three assignments of /reblank.
store_blanks(sess, made) ==
    [sess EXCEPT !.display_parts = made.display_parts,
                 !.blanks_data = session_keys(made.blanks_data),
                 !.word_bank = made.word_bank]

\* english_tests/network.py:418-497: POST /reblank blanks the text of the
\* session again.
english_tests_reblank(sess, data) ==
    IF ~data.is_json \/ ~data.has_data
    THEN {test_outcome(400, "reblank_refused", sess, FALSE)}
    ELSE IF sess.original_full_text.chars = <<>>
    THEN {test_outcome(400, "reblank_no_text", sess, FALSE)}
    ELSE IF sess.exercise_title = <<>>
    THEN {test_outcome(400, "reblank_no_title", sess, FALSE)}
    ELSE IF _get_data_str(data.exercise_difficulty) = <<>>
    THEN {test_outcome(400, "reblank_refused", sess, FALSE)}
    ELSE IF _get_data_slider(data.slider_value) = 0
    THEN {test_outcome(400, "reblank_refused", sess, FALSE)}
    ELSE LET decoys == _get_data_bool(data.include_random_words)
         IN  {IF \/ made.display_parts = <<>>
                 \/ made.blanks_data = EmptyMap
                 \/ made.word_bank = <<>>
              THEN test_outcome(500, "reblank_failed", sess, decoys)
              ELSE test_outcome(200, "reblank_done", store_blanks(sess, made),
                                decoys) :
                made \in create_exercise_with_blanks_percentage(
                            sess.original_full_text,
                            _get_data_slider(data.slider_value), decoys)}

\* english_tests/network.py:500-584: POST /get_new_test stores a new text,
\* its title and its exercise.
get_new_test_route(sess, data) ==
    IF ~data.is_json \/ ~data.has_data
    THEN {test_outcome(400, "new_test_refused", sess, FALSE)}
    ELSE IF _get_data_str(data.exercise_difficulty) = <<>>
    THEN {test_outcome(400, "new_test_refused", sess, FALSE)}
    ELSE IF _get_data_slider(data.slider_value) = 0
    THEN {test_outcome(400, "new_test_refused", sess, FALSE)}
    ELSE LET decoys == _get_data_bool(data.include_random_words)
         IN  {test_outcome(200, "new_test_done",
                           [display_parts |-> made.display_parts,
                            blanks_data |-> session_keys(made.blanks_data),
                            word_bank |-> made.word_bank,
                            original_full_text |-> made.original_full_text,
                            exercise_title |-> made.exercise_title],
                           decoys) :
                made \in get_exercise_with_percentage_blanks(
                            _get_data_slider(data.slider_value), decoys,
                            _get_data_str(data.exercise_difficulty))}

\* The bodies of the two routes.
TestDifficulties ==
    {[isStr |-> FALSE, chars |-> <<>>], [isStr |-> TRUE, chars |-> <<" ">>],
     [isStr |-> TRUE, chars |-> <<"B","1">>],
     [isStr |-> TRUE, chars |-> <<" ","C","1">>],
     [isStr |-> TRUE, chars |-> <<"A","1">>]}

TestFlags == {[given |-> FALSE, val |-> FALSE], [given |-> TRUE, val |-> TRUE]}

TestSliders == {NoSlider, [given |-> TRUE, isInt |-> TRUE, val |-> 10]}

TestBodies(route) ==
    {[route |-> route, is_json |-> TRUE, has_data |-> TRUE,
      exercise_difficulty |-> d, slider_value |-> v,
      include_random_words |-> f] :
        d \in TestDifficulties, v \in TestSliders, f \in TestFlags}
    \cup {[route |-> route, is_json |-> j, has_data |-> FALSE,
           exercise_difficulty |-> [isStr |-> FALSE, chars |-> <<>>],
           slider_value |-> NoSlider,
           include_random_words |-> [given |-> FALSE, val |-> FALSE]] :
             j \in BOOLEAN}

\* The session as the request finds it.
TestSession ==
    [display_parts |-> display_parts, blanks_data |-> blanks_data,
     word_bank |-> word_bank, original_full_text |-> original_full_text,
     exercise_title |-> exercise_title]

InitTests ==
    /\ pc = "idle"
    /\ GenerationIdle
    /\ GradingIdle
    /\ HelpersIdle

\* The response to one request and the session it leaves.
RespondTest(req, done) ==
    /\ request' = req
    /\ status' = done.status
    /\ pc' = done.at
    /\ include_decoys' = done.include_decoys
    /\ display_parts' = done.session.display_parts
    /\ blanks_data' = done.session.blanks_data
    /\ word_bank' = done.session.word_bank
    /\ original_full_text' = done.session.original_full_text
    /\ exercise_title' = done.session.exercise_title
    /\ UNCHANGED <<min_blanks, max_blanks, num_blanks, nonadj, selected>>
    /\ UNCHANGED grading_vars
    /\ UNCHANGED <<call_population_size, call_words, call_population,
                   call_slider_value, call_text_length, call_min_percentage,
                   call_max_percentage>>

PostGetNewTest ==
    \E req \in TestBodies("/get_new_test") :
       \E done \in get_new_test_route(TestSession, req) : RespondTest(req, done)

PostTestReblank ==
    \E req \in TestBodies("/reblank") :
       \E done \in english_tests_reblank(TestSession, req) :
          RespondTest(req, done)

NextTests == PostGetNewTest \/ PostTestReblank

SpecTests == InitTests /\ [][NextTests]_vars

\* One request, seen from the session.
C23_Step ==
    request'.route = "/reblank"
       => /\ original_full_text' = original_full_text
          /\ exercise_title' = exercise_title
          /\ status' # 200
                => UNCHANGED <<display_parts, blanks_data, word_bank>>
          /\ (original_full_text.chars = <<>> \/ exercise_title = <<>>)
                => /\ status' = 400
                   /\ UNCHANGED <<display_parts, blanks_data, word_bank>>

C23_RefusedBeforeNewTest ==
    /\ pc = "reblank_no_text"
    /\ status = 400
    /\ request.has_data
    /\ exercise_title = <<>>
    /\ display_parts = <<>>

C23_RefusedWithoutTitle ==
    /\ pc = "reblank_no_title"
    /\ status = 400
    /\ original_full_text.chars # <<>>
    /\ display_parts # <<>>

====
